---- MODULE Spec2Model ----
(***************************************************************************)
(* Model of the FixIt Tech Solutions ticket backend: the status transition *)
(* engine (app/business_logic.py), the ticket store operations             *)
(* (app/crud.py) and the request handlers that drive them (app/main.py).   *)
(* Every handler is one atomic step; the store is the set of tables of     *)
(* app/models.py.                                                          *)
(***************************************************************************)
EXTENDS Integers, Sequences, FiniteSets, TLC

\* ------------------------------------------------------------------------
\* Bounds of the model
\* ------------------------------------------------------------------------
MaxTickets == 2
MaxClock == 3
MaxBulk == 2
MaxWorkers == 2

\* ------------------------------------------------------------------------
\* Values
\* ------------------------------------------------------------------------
\* Python None (an explicit JSON null in a request, a NULL column)
None == "None"
\* a request field that was not sent at all (pydantic: not in fields_set)
Unset == "Unset"
\* a NULL DateTime column
NoTime == 0
\* a query that found no row (primary keys start at 1)
NoRow == 0

TicketStatus ==
    {"pending", "diagnosed", "in_progress", "waiting_parts",
     "completed", "ready_pickup", "delivered", "cancelled"}

Range(s) == {s[i] : i \in 1..Len(s)}

\* ------------------------------------------------------------------------
\* app/business_logic.py
\* ------------------------------------------------------------------------
\* variant: a ticket that waits for parts has no way on
Mutant_VALID_STATUS_TRANSITIONS_trap ==
    [s \in TicketStatus |->
        CASE s = "pending"       -> <<"diagnosed", "in_progress", "cancelled">>
          [] s = "diagnosed"     -> <<"in_progress", "waiting_parts", "completed",
                                      "ready_pickup", "cancelled">>
          [] s = "in_progress"   -> <<"waiting_parts", "completed", "ready_pickup",
                                      "cancelled">>
          [] s = "waiting_parts" -> <<>>
          [] s = "completed"     -> <<"ready_pickup", "delivered">>
          [] s = "ready_pickup"  -> <<"delivered", "in_progress">>
          [] s = "delivered"     -> <<>>
          [] s = "cancelled"     -> <<>>]

\* variant: a completed ticket may be sent back to in_progress
Mutant_VALID_STATUS_TRANSITIONS ==
    [s \in TicketStatus |->
        CASE s = "pending"       -> <<"diagnosed", "in_progress", "cancelled">>
          [] s = "diagnosed"     -> <<"in_progress", "waiting_parts", "completed",
                                      "ready_pickup", "cancelled">>
          [] s = "in_progress"   -> <<"waiting_parts", "completed", "ready_pickup",
                                      "cancelled">>
          [] s = "waiting_parts" -> <<"in_progress", "cancelled">>
          [] s = "completed"     -> <<"ready_pickup", "delivered", "in_progress">>
          [] s = "ready_pickup"  -> <<"delivered", "in_progress">>
          [] s = "delivered"     -> <<>>
          [] s = "cancelled"     -> <<>>]

VALID_STATUS_TRANSITIONS ==
    [s \in TicketStatus |->
        CASE s = "pending"       -> <<"diagnosed", "in_progress", "cancelled">>
          [] s = "diagnosed"     -> <<"in_progress", "waiting_parts", "completed",
                                      "ready_pickup", "cancelled">>
          [] s = "in_progress"   -> <<"waiting_parts", "completed", "ready_pickup",
                                      "cancelled">>
          [] s = "waiting_parts" -> <<"in_progress", "cancelled">>
          [] s = "completed"     -> <<"ready_pickup", "delivered">>
          [] s = "ready_pickup"  -> <<"delivered", "in_progress">>
          [] s = "delivered"     -> <<>>
          [] s = "cancelled"     -> <<>>]

get_valid_next_statuses(current_status) ==
    IF current_status \in DOMAIN VALID_STATUS_TRANSITIONS
    THEN VALID_STATUS_TRANSITIONS[current_status]
    ELSE <<>>

\* variant: the table is looked up under the new status
Mutant_is_valid_status_transition(current_status, new_status) ==
    IF current_status = new_status
    THEN TRUE
    ELSE current_status \in Range(get_valid_next_statuses(new_status))

is_valid_status_transition(current_status, new_status) ==
    IF current_status = new_status
    THEN TRUE
    ELSE new_status \in Range(get_valid_next_statuses(current_status))

\* The Optional[str] that validate_status_transition returns: the error
\* string is kept as the parts it is formatted from, kind = None is None.
NoError ==
    [kind |-> None, current |-> None, proposed |-> None, valid_list |-> <<>>]

\* variant: every rejection takes the form that lists the valid statuses
Mutant_validate_status_transition(current_status, new_status) ==
    IF ~is_valid_status_transition(current_status, new_status)
    THEN [kind |-> "cannot_transition", current |-> current_status,
          proposed |-> new_status,
          valid_list |-> get_valid_next_statuses(current_status)]
    ELSE NoError

validate_status_transition(current_status, new_status) ==
    IF ~is_valid_status_transition(current_status, new_status)
    THEN LET valid_next == get_valid_next_statuses(current_status)
         IN  IF valid_next = <<>>
             THEN [kind |-> "final_state", current |-> current_status,
                   proposed |-> None, valid_list |-> <<>>]
             ELSE [kind |-> "cannot_transition", current |-> current_status,
                   proposed |-> new_status, valid_list |-> valid_next]
    ELSE NoError

\* str.lower() on the priority strings the model sends
lower(str) ==
    CASE str = "HIGH" -> "high"
      [] OTHER -> str

validate_priority(priority) ==
    lower(priority) \in Range(<<"low", "normal", "high", "urgent">>)

\* variant: a cancelled ticket counts as actionable
Mutant_is_ticket_actionable(status) ==
    status \notin Range(<<"delivered">>)

is_ticket_actionable(status) ==
    status \notin Range(<<"delivered", "cancelled">>)

\* ------------------------------------------------------------------------
\* Inputs of the requests
\* ------------------------------------------------------------------------
\* bodies of the create request: two customers, a priority of the fixed
\* set and one outside it (TicketCreate.priority is any string, of any
\* length), with and without notes and an estimated cost
CreateRequests ==
    {[customer_email |-> "a@x.com", device_type |-> "phone",
      priority |-> "normal", estimated_cost |-> None, notes |-> None],
     [customer_email |-> "b@x.com", device_type |-> "laptop",
      priority |-> "as-soon-as-possible-please",
      estimated_cost |-> "50.0", notes |-> "cracked screen"]}
UpdateNotes == {Unset}
\* bodies of the update request: every status (or none, or null) alone,
\* a priority (null, valid, invalid) alone or next to a status, and the
\* notes and the actual cost alone
UpdateRequests ==
    [status : TicketStatus \cup {Unset, None}, priority : {Unset},
     estimated_cost : {Unset}, actual_cost : {Unset}, notes : UpdateNotes]
    \cup [status : {Unset, "diagnosed", "delivered"},
          priority : {None, "HIGH", "bogus"},
          estimated_cost : {Unset}, actual_cost : {Unset},
          notes : UpdateNotes]
    \cup [status : {Unset}, priority : {Unset}, estimated_cost : {Unset},
          actual_cost : {"80.0"}, notes : {"parts ordered"}]
ChangedBy == {None}
\* the engines DATABASE_URL selects: SQLite by default, which does not
\* enforce the length of a String column, PostgreSQL in production
Engines == {"sqlite", "postgresql"}
\* len() of the priorities the requests carry
len(s) ==
    CASE s = "normal" -> 6
      [] s = "HIGH" -> 4
      [] s = "bogus" -> 5
      [] s = "as-soon-as-possible-please" -> 26
\* passwords a request can carry: that of the default admin and the one
\* customers sign up with
Passwords == {"admin123", "secret1"}
\* bodies of the admin login, the customer signup and the customer login
LoginRequests == [username : {"admin", "a@x.com"}, password : Passwords]
SignupRequests == [email : {"a@x.com", "b@x.com"}, password : {"secret1"}]
CustomerLoginRequests == [email : {"a@x.com", "b@x.com"}, password : Passwords]
\* ------------------------------------------------------------------------
\* The store (app/models.py): one sequence per table, the index of a row
\* is its autoincrement primary key; now is the clock datetime.utcnow()
\* reads; resp is the response of the last request; tokens are the access
\* tokens the server has issued, which clients hold and present; procs
\* is, for each server process, the update request it is serving and the
\* point it has reached
\* ------------------------------------------------------------------------
VARIABLES customers, devices, tickets, history, notifications, admins,
          tokens, now, resp, procs

vars == <<customers, devices, tickets, history, notifications, admins,
          tokens, now, resp, procs>>

\* the tables as one value, as a Session sees them
DB ==
    [customers |-> customers, devices |-> devices, tickets |-> tickets,
     history |-> history, notifications |-> notifications,
     admins |-> admins]

\* ids a request can name: the tickets of the store and one id that
\* matches no ticket
TicketIds(d) == 1..(Len(d.tickets) + 1)
\* the lists of k ids out of ids, none of them twice
RECURSIVE DistinctLists(_, _)
DistinctLists(k, ids) ==
    IF k = 0
    THEN {<<>>}
    ELSE UNION {{Append(l, x) : x \in ids \ Range(l)} :
                    l \in DistinctLists(k - 1, ids)}
\* id lists of a bulk request over the ids 1..n: the lists without
\* repetition and the lists that repeat one id
BulkIdListsOver ==
    [n \in 1..(MaxTickets + 1) |->
        UNION {DistinctLists(k, 1..n) \cup {[i \in 1..k |-> x] : x \in 1..n} :
                   k \in 1..MaxBulk}]
BulkIdLists(d) == BulkIdListsOver[Len(d.tickets) + 1]

\* ------------------------------------------------------------------------
\* app/crud.py
\* ------------------------------------------------------------------------
\* id of the first customer with this email, or NoRow
get_customer_by_email(d, email) ==
    IF \E c \in DOMAIN d.customers : d.customers[c].email = email
    THEN CHOOSE c \in DOMAIN d.customers :
            /\ d.customers[c].email = email
            /\ \A c2 \in DOMAIN d.customers :
                  d.customers[c2].email = email => c <= c2
    ELSE NoRow

\* variant: the email column carries no unique constraint
Mutant_insert_customer(d, row) ==
    [db |-> [d EXCEPT !.customers = Append(@, row)], raised |-> None]

\* the INSERT of a customer row under the unique constraint of the email
\* column: a second row with an email of the table raises at the commit
\* and nothing is stored
insert_customer(d, row) ==
    IF \E c \in DOMAIN d.customers : d.customers[c].email = row.email
    THEN [db |-> d, raised |-> "IntegrityError"]
    ELSE [db |-> [d EXCEPT !.customers = Append(@, row)], raised |-> None]

create_customer(d, email, t) ==
    [d EXCEPT !.customers =
        Append(@, [email |-> email, hashed_password |-> None,
                   is_active |-> 1, created_at |-> t, last_login |-> NoTime])]

\* returns the store and the id of the customer
get_or_create_customer(d, email, t) ==
    LET existing_customer == get_customer_by_email(d, email)
    IN  IF existing_customer # NoRow
        THEN [db |-> d, customer_id |-> existing_customer]
        ELSE [db |-> create_customer(d, email, t),
              customer_id |-> Len(d.customers) + 1]

create_device(d, device_type) ==
    [d EXCEPT !.devices = Append(@, [device_type |-> device_type])]

\* the key of the row found, or NoRow
get_ticket(d, ticket_id) ==
    IF ticket_id \in DOMAIN d.tickets THEN ticket_id ELSE NoRow

\* crud.create_ticket from the device on, for the customer it got: the
\* customer and the device are committed before the ticket is: when
\* the INSERT of the ticket raises, they stay. It raises on an engine that
\* enforces the length of priority, String(20), and never on SQLite.
\* Returns the store, the ticket id and what was raised
create_ticket_rows(d, customer_id, ticket, t, engine) ==
    LET d2 == create_device(d, ticket.device_type)
        db_ticket == [customer_id |-> customer_id,
                      device_id |-> Len(d2.devices),
                      status |-> "pending",
                      priority |-> ticket.priority,
                      estimated_cost |-> ticket.estimated_cost,
                      actual_cost |-> None,
                      notes |-> ticket.notes,
                      created_at |-> t,
                      updated_at |-> t,
                      completed_at |-> NoTime]
    IN  IF engine # "sqlite" /\ len(ticket.priority) > 20
        THEN [db |-> d2, ticket |-> NoRow, raised |-> "DataError"]
        ELSE [db |-> [d2 EXCEPT !.tickets = Append(@, db_ticket)],
              ticket |-> Len(d2.tickets) + 1, raised |-> None]

crud_create_ticket(d, ticket, t, engine) ==
    LET c == get_or_create_customer(d, ticket.customer_email, t)
    IN  create_ticket_rows(c.db, c.customer_id, ticket, t, engine)

\* variant: the actor of the request is not recorded
Mutant_create_ticket_history_system(d, ticket_id, old_status, new_status, changed_by, notes, t) ==
    [d EXCEPT !.history =
        Append(@, [ticket_id |-> ticket_id,
                   old_status |-> old_status,
                   new_status |-> new_status,
                   changed_by |-> "system",
                   notes |-> notes,
                   changed_at |-> t])]

\* variant: a ticket has one history row, which each change overwrites
Mutant_create_ticket_history_upsert(d, ticket_id, old_status, new_status, changed_by, notes, t) ==
    LET row == [ticket_id |-> ticket_id,
                old_status |-> old_status,
                new_status |-> new_status,
                changed_by |-> IF changed_by \notin {None, ""}
                               THEN changed_by ELSE "system",
                notes |-> notes,
                changed_at |-> t]
    IN  IF \E i \in DOMAIN d.history : d.history[i].ticket_id = ticket_id
        THEN [d EXCEPT !.history =
                 [i \in DOMAIN @ |->
                     IF @[i].ticket_id = ticket_id THEN row ELSE @[i]]]
        ELSE [d EXCEPT !.history = Append(@, row)]

\* variant: the row takes its old status from the ticket after the change
Mutant_create_ticket_history(d, ticket_id, old_status, new_status, changed_by, notes, t) ==
    [d EXCEPT !.history =
        Append(@, [ticket_id |-> ticket_id,
                   old_status |-> d.tickets[ticket_id].status,
                   new_status |-> new_status,
                   changed_by |-> IF changed_by \notin {None, ""}
                               THEN changed_by ELSE "system",
                   notes |-> notes,
                   changed_at |-> t])]

create_ticket_history(d, ticket_id, old_status, new_status, changed_by, notes, t) ==
    [d EXCEPT !.history =
        Append(@, [ticket_id |-> ticket_id,
                   old_status |-> old_status,
                   new_status |-> new_status,
                   changed_by |-> IF changed_by \notin {None, ""}
                               THEN changed_by ELSE "system",
                   notes |-> notes,
                   changed_at |-> t])]

\* variant: the history row of the change records no old status
Mutant_update_ticket_status_no_old(d, ticket_id, status, changed_by, notes, t) ==
    IF get_ticket(d, ticket_id) = NoRow
    THEN [db |-> d, ticket |-> NoRow]
    ELSE LET old_status == d.tickets[ticket_id].status
             d2 == [d EXCEPT
                      !.tickets[ticket_id].status = status,
                      !.tickets[ticket_id].updated_at = t,
                      !.tickets[ticket_id].completed_at =
                          IF status \in Range(<<"completed", "delivered">>)
                          THEN t ELSE @]
         IN  [db |-> IF old_status # status
                     THEN create_ticket_history(d2, ticket_id, None,
                                                status, changed_by, notes, t)
                     ELSE d2,
              ticket |-> ticket_id]

\* variant: completed_at is set for completed only
Mutant_update_ticket_status(d, ticket_id, status, changed_by, notes, t) ==
    IF get_ticket(d, ticket_id) = NoRow
    THEN [db |-> d, ticket |-> NoRow]
    ELSE LET old_status == d.tickets[ticket_id].status
             d2 == [d EXCEPT
                      !.tickets[ticket_id].status = status,
                      !.tickets[ticket_id].updated_at = t,
                      !.tickets[ticket_id].completed_at =
                          IF status \in Range(<<"completed">>)
                          THEN t ELSE @]
         IN  [db |-> IF old_status # status
                     THEN create_ticket_history(d2, ticket_id, old_status,
                                                status, changed_by, notes, t)
                     ELSE d2,
              ticket |-> ticket_id]

\* returns the store and the ticket id (NoRow when there is no such ticket)
update_ticket_status(d, ticket_id, status, changed_by, notes, t) ==
    IF get_ticket(d, ticket_id) = NoRow
    THEN [db |-> d, ticket |-> NoRow]
    ELSE LET old_status == d.tickets[ticket_id].status
             d2 == [d EXCEPT
                      !.tickets[ticket_id].status = status,
                      !.tickets[ticket_id].updated_at = t,
                      !.tickets[ticket_id].completed_at =
                          IF status \in Range(<<"completed", "delivered">>)
                          THEN t ELSE @]
         IN  [db |-> IF old_status # status
                     THEN create_ticket_history(d2, ticket_id, old_status,
                                                status, changed_by, notes, t)
                     ELSE d2,
              ticket |-> ticket_id]

\* a field read from the request object: an unset field reads as its default
attr(value) == IF value = Unset THEN None ELSE value

\* variant: the nullable columns are written whether the request carries
\* them or not
Mutant_apply_update_data(row, ticket_update) ==
    [row EXCEPT
       !.status = IF ticket_update.status # Unset THEN ticket_update.status ELSE @,
       !.priority = IF ticket_update.priority # Unset THEN ticket_update.priority ELSE @,
       !.estimated_cost = attr(ticket_update.estimated_cost),
       !.actual_cost = attr(ticket_update.actual_cost),
       !.notes = attr(ticket_update.notes)]

\* setattr(db_ticket, field, value) for the fields of update_data
apply_update_data(row, ticket_update) ==
    [row EXCEPT
       !.status = IF ticket_update.status # Unset THEN ticket_update.status ELSE @,
       !.priority = IF ticket_update.priority # Unset THEN ticket_update.priority ELSE @,
       !.estimated_cost = IF ticket_update.estimated_cost # Unset
                          THEN ticket_update.estimated_cost ELSE @,
       !.actual_cost = IF ticket_update.actual_cost # Unset
                       THEN ticket_update.actual_cost ELSE @,
       !.notes = IF ticket_update.notes # Unset THEN ticket_update.notes ELSE @]

\* variant: updated_at is written only when an attribute changed
Mutant_crud_update_ticket_touch(d, ticket_id, ticket_update, changed_by, t) ==
    IF get_ticket(d, ticket_id) = NoRow
    THEN [db |-> d, ticket |-> NoRow, raised |-> None]
    ELSE LET old_status == d.tickets[ticket_id].status
             row == apply_update_data(d.tickets[ticket_id], ticket_update)
             row2 == [row EXCEPT
                        !.updated_at =
                            IF row # d.tickets[ticket_id] THEN t ELSE @,
                        !.completed_at =
                            IF /\ ticket_update.status # Unset
                               /\ ticket_update.status \in
                                      Range(<<"completed", "delivered">>)
                            THEN t ELSE @]
             d2 == [d EXCEPT !.tickets[ticket_id] = row2]
         IN  IF row2.status = None \/ row2.priority = None
             THEN [db |-> d, ticket |-> NoRow, raised |-> "IntegrityError"]
             ELSE [db |-> IF /\ ticket_update.status # Unset
                             /\ old_status # ticket_update.status
                          THEN create_ticket_history(d2, ticket_id, old_status,
                                   ticket_update.status, changed_by,
                                   attr(ticket_update.notes), t)
                          ELSE d2,
                   ticket |-> ticket_id, raised |-> None]

\* variant: nullable status and priority columns, the commit never raises
Mutant_crud_update_ticket(d, ticket_id, ticket_update, changed_by, t) ==
    IF get_ticket(d, ticket_id) = NoRow
    THEN [db |-> d, ticket |-> NoRow, raised |-> None]
    ELSE LET old_status == d.tickets[ticket_id].status
             row == apply_update_data(d.tickets[ticket_id], ticket_update)
             row2 == [row EXCEPT
                        !.updated_at = t,
                        !.completed_at =
                            IF /\ ticket_update.status # Unset
                               /\ ticket_update.status \in
                                      Range(<<"completed", "delivered">>)
                            THEN t ELSE @]
             d2 == [d EXCEPT !.tickets[ticket_id] = row2]
         IN  [db |-> IF /\ ticket_update.status # Unset
                        /\ old_status # ticket_update.status
                     THEN create_ticket_history(d2, ticket_id, old_status,
                              ticket_update.status, changed_by,
                              attr(ticket_update.notes), t)
                     ELSE d2,
              ticket |-> ticket_id, raised |-> None]

\* returns the store and the ticket id (NoRow when there is no such ticket);
\* raised is "IntegrityError" when the commit violates a NOT NULL column:
\* the session is then discarded and nothing is stored
crud_update_ticket(d, ticket_id, ticket_update, changed_by, t) ==
    IF get_ticket(d, ticket_id) = NoRow
    THEN [db |-> d, ticket |-> NoRow, raised |-> None]
    ELSE LET old_status == d.tickets[ticket_id].status
             row == apply_update_data(d.tickets[ticket_id], ticket_update)
             row2 == [row EXCEPT
                        !.updated_at = t,
                        !.completed_at =
                            IF /\ ticket_update.status # Unset
                               /\ ticket_update.status \in
                                      Range(<<"completed", "delivered">>)
                            THEN t ELSE @]
             d2 == [d EXCEPT !.tickets[ticket_id] = row2]
         IN  IF row2.status = None \/ row2.priority = None
             THEN [db |-> d, ticket |-> NoRow, raised |-> "IntegrityError"]
             ELSE [db |-> IF /\ ticket_update.status # Unset
                             /\ old_status # ticket_update.status
                          THEN create_ticket_history(d2, ticket_id, old_status,
                                   ticket_update.status, changed_by,
                                   attr(ticket_update.notes), t)
                          ELSE d2,
                   ticket |-> ticket_id, raised |-> None]

\* variant: the loop ends at the first id that matches no ticket
RECURSIVE Mutant_bulk_loop(_, _, _, _, _, _, _)
Mutant_bulk_loop(d, ticket_ids, i, new_status, changed_by, updated_count, t) ==
    IF i > Len(ticket_ids)
    THEN [db |-> d, updated_count |-> updated_count]
    ELSE LET r == update_ticket_status(d, ticket_ids[i], new_status,
                                       changed_by, None, t)
         IN  IF r.ticket = NoRow
             THEN [db |-> d, updated_count |-> updated_count]
             ELSE Mutant_bulk_loop(r.db, ticket_ids, i + 1, new_status,
                                   changed_by, updated_count + 1, t)

\* the loop of bulk_update_ticket_status over the ids from position i on
RECURSIVE bulk_loop(_, _, _, _, _, _, _)
bulk_loop(d, ticket_ids, i, new_status, changed_by, updated_count, t) ==
    IF i > Len(ticket_ids)
    THEN [db |-> d, updated_count |-> updated_count]
    ELSE LET r == update_ticket_status(d, ticket_ids[i], new_status,
                                       changed_by, None, t)
         IN  bulk_loop(r.db, ticket_ids, i + 1, new_status, changed_by,
                       IF r.ticket # NoRow THEN updated_count + 1
                       ELSE updated_count,
                       t)

bulk_update_ticket_status(d, ticket_ids, new_status, changed_by, t) ==
    bulk_loop(d, ticket_ids, 1, new_status, changed_by, 0, t)

\* ------------------------------------------------------------------------
\* app/auth.py
\* ------------------------------------------------------------------------
ACCESS_TOKEN_EXPIRE_MINUTES == 480
SECRET_KEY == "your-secret-key-change-in-production-use-env-variable"

\* the bcrypt digest of a password, as the string that is stored
get_password_hash(password) ==
    CASE password = "admin123" -> "bcrypt(admin123)"
      [] password = "secret1" -> "bcrypt(secret1)"

verify_password(plain_password, hashed_password) ==
    hashed_password = get_password_hash(plain_password)

\* a token is the claims it encodes and the key it is signed with; a
\* claim the data does not hold is Unset
create_access_token(data, t) ==
    [sub |-> data.sub, type |-> data.type,
     exp |-> t + ACCESS_TOKEN_EXPIRE_MINUTES, key |-> SECRET_KEY]

\* the None that decode_access_token returns
NoPayload == [sub |-> None, type |-> Unset, exp |-> NoTime]

\* the payload, or NoPayload when jwt.decode raises: wrong signature or
\* expiry in the past
decode_access_token(token, t) ==
    IF token.key # SECRET_KEY \/ token.exp < t
    THEN NoPayload
    ELSE [sub |-> token.sub, type |-> token.type, exp |-> token.exp]

\* id of the first admin with this username, or NoRow
get_admin_by_username(d, username) ==
    IF \E a \in DOMAIN d.admins : d.admins[a].username = username
    THEN CHOOSE a \in DOMAIN d.admins :
            /\ d.admins[a].username = username
            /\ \A a2 \in DOMAIN d.admins :
                  d.admins[a2].username = username => a <= a2
    ELSE NoRow

\* the id of the admin, or NoRow for None
authenticate_admin(d, username, password) ==
    LET admin == get_admin_by_username(d, username)
    IN  IF admin = NoRow
        THEN NoRow
        ELSE IF ~verify_password(password, d.admins[admin].hashed_password)
        THEN NoRow
        ELSE admin

\* the id of the admin the bearer token resolves to, or NoRow when the
\* dependency raises 401
get_current_admin(d, credentials, t) ==
    LET payload == decode_access_token(credentials, t)
    IN  IF payload = NoPayload
        THEN NoRow
        ELSE IF payload.sub = None
        THEN NoRow
        ELSE get_admin_by_username(d, payload.sub)

\* variant: the password is not verified
Mutant_authenticate_customer(d, email, password) ==
    LET customer == get_customer_by_email(d, email)
    IN  IF customer = NoRow
        THEN NoRow
        ELSE IF d.customers[customer].hashed_password = None
        THEN NoRow
        ELSE customer

\* the id of the customer, or NoRow for None
authenticate_customer(d, email, password) ==
    LET customer == get_customer_by_email(d, email)
    IN  IF customer = NoRow
        THEN NoRow
        ELSE IF d.customers[customer].hashed_password = None
        THEN NoRow
        ELSE IF ~verify_password(password,
                                 d.customers[customer].hashed_password)
        THEN NoRow
        ELSE customer

\* the id of the customer the bearer token resolves to, or NoRow when the
\* dependency raises 401
get_current_customer(d, credentials, t) ==
    LET payload == decode_access_token(credentials, t)
    IN  IF payload = NoPayload
        THEN NoRow
        ELSE LET email == payload.sub
                 user_type == IF payload.type = Unset
                              THEN "customer" ELSE payload.type
             IN  IF email = None \/ user_type # "customer"
                 THEN NoRow
                 ELSE get_customer_by_email(d, email)

\* ------------------------------------------------------------------------
\* app/main.py: each handler maps the store, the request and the time of
\* the request to the store it leaves and the response it sends
\* ------------------------------------------------------------------------
Detail(kind) ==
    [kind |-> kind, current |-> None, proposed |-> None, valid_list |-> <<>>]

\* POST /api/v1/tickets: any exception of crud.create_ticket is answered
\* with 500, and what was committed before it stays
main_create_ticket(d, ticket, t, engine) ==
    LET r == crud_create_ticket(d, ticket, t, engine)
    IN  [db |-> r.db,
         resp |-> [op |-> "create_ticket",
                   status_code |-> IF r.raised # None THEN 500 ELSE 201,
                   ticket_id |-> r.ticket]]

\* access_token of a response that carries none
NoToken == [sub |-> None, type |-> Unset, exp |-> NoTime, key |-> None]
\* a token signed with a key that is not the server's
BadToken ==
    [sub |-> "admin", type |-> Unset, exp |-> ACCESS_TOKEN_EXPIRE_MINUTES,
     key |-> "not-the-secret-key"]
\* what a client can put in the Authorization header: a token the server
\* issued, or a forged one
Credentials(issued) == issued \cup {BadToken}

\* variant: last_login is written before the active flag is tested
Mutant_main_login(d, login_data, t) ==
    LET reply(code, detail, token) ==
            [op |-> "login", request |-> login_data, status_code |-> code,
             detail |-> detail, access_token |-> token]
        admin == authenticate_admin(d, login_data.username,
                                    login_data.password)
    IN  IF admin = NoRow
        THEN [db |-> d, issued |-> {},
              resp |-> reply(401, "Incorrect username or password", NoToken)]
        ELSE IF d.admins[admin].is_active = 0
        THEN [db |-> [d EXCEPT !.admins[admin].last_login = t],
              issued |-> {},
              resp |-> reply(403, "Admin account is inactive", NoToken)]
        ELSE LET access_token ==
                     create_access_token(
                         [sub |-> d.admins[admin].username, type |-> Unset], t)
             IN  [db |-> [d EXCEPT !.admins[admin].last_login = t],
                  issued |-> {access_token},
                  resp |-> reply(200, None, access_token)]

\* POST /api/v1/auth/login; issued is the token sent to the client, if any
main_login(d, login_data, t) ==
    LET reply(code, detail, token) ==
            [op |-> "login", request |-> login_data, status_code |-> code,
             detail |-> detail, access_token |-> token]
        admin == authenticate_admin(d, login_data.username,
                                    login_data.password)
    IN  IF admin = NoRow
        THEN [db |-> d, issued |-> {},
              resp |-> reply(401, "Incorrect username or password", NoToken)]
        ELSE IF d.admins[admin].is_active = 0
        THEN [db |-> d, issued |-> {},
              resp |-> reply(403, "Admin account is inactive", NoToken)]
        ELSE LET access_token ==
                     create_access_token(
                         [sub |-> d.admins[admin].username, type |-> Unset], t)
             IN  [db |-> [d EXCEPT !.admins[admin].last_login = t],
                  issued |-> {access_token},
                  resp |-> reply(200, None, access_token)]

\* GET /api/v1/auth/me
main_get_current_admin_info(d, credentials, t) ==
    LET current_admin == get_current_admin(d, credentials, t)
    IN  [db |-> d,
         resp |-> [op |-> "get_current_admin_info",
                   credentials |-> credentials,
                   status_code |-> IF current_admin = NoRow THEN 401 ELSE 200,
                   admin_id |-> current_admin]]

\* variant: a signup with the email of a customer who has no digest sets
\* the digest of that customer
Mutant_main_customer_signup(d, signup_data, t) ==
    LET reply(code, detail, token) ==
            [op |-> "customer_signup", request |-> signup_data,
             status_code |-> code, detail |-> detail, access_token |-> token]
        existing_customer == get_customer_by_email(d, signup_data.email)
        access_token ==
            create_access_token(
                [sub |-> signup_data.email, type |-> "customer"], t)
    IN  IF /\ existing_customer # NoRow
           /\ d.customers[existing_customer].hashed_password # None
        THEN [db |-> d, issued |-> {},
              resp |-> reply(400, "Email already registered", NoToken)]
        ELSE IF existing_customer # NoRow
        THEN [db |-> [d EXCEPT !.customers[existing_customer].hashed_password =
                                   get_password_hash(signup_data.password)],
              issued |-> {access_token},
              resp |-> reply(200, None, access_token)]
        ELSE LET new_customer ==
                     [email |-> signup_data.email,
                      hashed_password |->
                          get_password_hash(signup_data.password),
                      is_active |-> 1, created_at |-> t,
                      last_login |-> NoTime]
             IN  [db |-> [d EXCEPT !.customers = Append(@, new_customer)],
                  issued |-> {access_token},
                  resp |-> reply(200, None, access_token)]

\* POST /api/v1/auth/customer/signup
main_customer_signup(d, signup_data, t) ==
    LET reply(code, detail, token) ==
            [op |-> "customer_signup", request |-> signup_data,
             status_code |-> code, detail |-> detail, access_token |-> token]
    IN  IF get_customer_by_email(d, signup_data.email) # NoRow
        THEN [db |-> d, issued |-> {},
              resp |-> reply(400, "Email already registered", NoToken)]
        ELSE LET new_customer ==
                     [email |-> signup_data.email,
                      hashed_password |->
                          get_password_hash(signup_data.password),
                      is_active |-> 1, created_at |-> t,
                      last_login |-> NoTime]
                 access_token ==
                     create_access_token(
                         [sub |-> new_customer.email, type |-> "customer"], t)
             IN  [db |-> [d EXCEPT !.customers = Append(@, new_customer)],
                  issued |-> {access_token},
                  resp |-> reply(200, None, access_token)]

\* POST /api/v1/auth/customer/login
main_customer_login(d, login_data, t) ==
    LET reply(code, detail, token) ==
            [op |-> "customer_login", request |-> login_data,
             status_code |-> code, detail |-> detail, access_token |-> token]
        customer == authenticate_customer(d, login_data.email,
                                          login_data.password)
    IN  IF customer = NoRow
        THEN [db |-> d, issued |-> {},
              resp |-> reply(401, "Incorrect email or password", NoToken)]
        ELSE IF d.customers[customer].is_active = 0
        THEN [db |-> d, issued |-> {},
              resp |-> reply(403, "Account is inactive", NoToken)]
        ELSE LET access_token ==
                     create_access_token(
                         [sub |-> d.customers[customer].email,
                          type |-> "customer"], t)
             IN  [db |-> [d EXCEPT !.customers[customer].last_login = t],
                  issued |-> {access_token},
                  resp |-> reply(200, None, access_token)]

\* GET /api/v1/customer/profile
main_get_customer_profile(d, credentials, t) ==
    LET current_customer == get_current_customer(d, credentials, t)
    IN  [db |-> d,
         resp |-> [op |-> "get_customer_profile",
                   credentials |-> credentials,
                   status_code |-> IF current_customer = NoRow
                                   THEN 401 ELSE 200,
                   customer_id |-> current_customer,
                   unread_notifications |->
                       Cardinality({n \in DOMAIN d.notifications :
                           /\ d.notifications[n].customer_id = current_customer
                           /\ d.notifications[n].is_read = 0})]]

\* the ids of rows, a set of notification ids, by created_at descending
RECURSIVE order_by_created_at_desc(_, _)
order_by_created_at_desc(d, rows) ==
    IF rows = {}
    THEN <<>>
    ELSE LET n == CHOOSE n \in rows :
                     \A m \in rows : d.notifications[m].created_at
                                         <= d.notifications[n].created_at
         IN  <<n>> \o order_by_created_at_desc(d, rows \ {n})

\* GET /api/v1/customer/notifications with its dependency
\* get_current_customer: the ids of the rows of the customer of the token;
\* the notifications of one customer are created by requests served one
\* after the other, so that no two of them have the same created_at
main_get_customer_notifications(d, credentials, t) ==
    LET current_customer == get_current_customer(d, credentials, t)
    IN  [db |-> d,
         resp |-> [op |-> "get_customer_notifications",
                   credentials |-> credentials,
                   status_code |-> IF current_customer = NoRow
                                   THEN 401 ELSE 200,
                   customer_id |-> current_customer,
                   notifications |->
                       order_by_created_at_desc(d,
                           {n \in DOMAIN d.notifications :
                               d.notifications[n].customer_id
                                   = current_customer})]]

\* variant: the notification is looked up by its id alone
Mutant_main_mark_notification_read_any(d, credentials, notification_id, t) ==
    LET current_customer == get_current_customer(d, credentials, t)
        reply(code) ==
            [op |-> "mark_notification_read", credentials |-> credentials,
             notification_id |-> notification_id, status_code |-> code]
    IN  IF current_customer = NoRow
        THEN [db |-> d, resp |-> reply(401)]
        ELSE IF notification_id \notin DOMAIN d.notifications
        THEN [db |-> d, resp |-> reply(404)]
        ELSE [db |-> [d EXCEPT !.notifications[notification_id].is_read = 1],
              resp |-> reply(200)]

\* variant: the request flips the flag
Mutant_main_mark_notification_read(d, credentials, notification_id, t) ==
    LET current_customer == get_current_customer(d, credentials, t)
        reply(code) ==
            [op |-> "mark_notification_read", credentials |-> credentials,
             notification_id |-> notification_id, status_code |-> code]
    IN  IF current_customer = NoRow
        THEN [db |-> d, resp |-> reply(401)]
        ELSE IF \/ notification_id \notin DOMAIN d.notifications
                \/ d.notifications[notification_id].customer_id
                       # current_customer
        THEN [db |-> d, resp |-> reply(404)]
        ELSE [db |-> [d EXCEPT !.notifications[notification_id].is_read =
                                   1 - @],
              resp |-> reply(200)]

\* PATCH /api/v1/customer/notifications/{notification_id}/read with its
\* dependency get_current_customer: the notification is looked up by its
\* id and the id of the customer of the token
main_mark_notification_read(d, credentials, notification_id, t) ==
    LET current_customer == get_current_customer(d, credentials, t)
        reply(code) ==
            [op |-> "mark_notification_read", credentials |-> credentials,
             notification_id |-> notification_id, status_code |-> code]
    IN  IF current_customer = NoRow
        THEN [db |-> d, resp |-> reply(401)]
        ELSE IF \/ notification_id \notin DOMAIN d.notifications
                \/ d.notifications[notification_id].customer_id
                       # current_customer
        THEN [db |-> d, resp |-> reply(404)]
        ELSE [db |-> [d EXCEPT !.notifications[notification_id].is_read = 1],
              resp |-> reply(200)]

\* variant: the notification is addressed to the customer of the newest
\* ticket
Mutant_new_notification_owner(d, ticket_id, old_status, new_status, t) ==
    [customer_id |-> d.tickets[Len(d.tickets)].customer_id,
     ticket_id |-> ticket_id,
     message |-> [ticket_id |-> ticket_id, old_status |-> old_status,
                  new_status |-> new_status],
     is_read |-> 0,
     created_at |-> t]

\* variant: the message reads the old status from the updated ticket
Mutant_new_notification(d, ticket_id, old_status, new_status, t) ==
    [customer_id |-> d.tickets[ticket_id].customer_id,
     ticket_id |-> ticket_id,
     message |-> [ticket_id |-> ticket_id,
                  old_status |-> d.tickets[ticket_id].status,
                  new_status |-> new_status],
     is_read |-> 0,
     created_at |-> t]

\* the CustomerNotification row the update handler adds
new_notification(d, ticket_id, old_status, new_status, t) ==
    [customer_id |-> d.tickets[ticket_id].customer_id,
     ticket_id |-> ticket_id,
     message |-> [ticket_id |-> ticket_id, old_status |-> old_status,
                  new_status |-> new_status],
     is_read |-> 0,
     created_at |-> t]

\* variant: the priority is validated after the update is applied
Mutant_main_update_ticket(d, ticket_id, ticket_update, t) ==
    LET reply(code, detail) ==
            [op |-> "update_ticket", ticket_id |-> ticket_id,
             request |-> ticket_update, status_code |-> code,
             detail |-> detail]
    IN  IF get_ticket(d, ticket_id) = NoRow
        THEN [db |-> d, resp |-> reply(404, Detail("not_found"))]
        ELSE
        LET old_status == d.tickets[ticket_id].status
            error == IF attr(ticket_update.status) # None
                     THEN validate_status_transition(old_status,
                                                     ticket_update.status)
                     ELSE NoError
        IN  IF error # NoError
            THEN [db |-> d, resp |-> reply(400, error)]
            ELSE
            LET u == crud_update_ticket(d, ticket_id, ticket_update, None, t)
            IN  IF u.raised # None
                THEN [db |-> d, resp |-> reply(500, Detail(u.raised))]
                ELSE IF /\ attr(ticket_update.priority) # None
                        /\ ~validate_priority(ticket_update.priority)
                THEN [db |-> u.db,
                      resp |-> reply(400, Detail("invalid_priority"))]
                ELSE IF /\ attr(ticket_update.status) # None
                        /\ ticket_update.status # old_status
                THEN [db |-> [u.db EXCEPT !.notifications =
                                 Append(@, new_notification(u.db, ticket_id,
                                     old_status, ticket_update.status, t))],
                      resp |-> reply(200, NoError)]
                ELSE [db |-> u.db, resp |-> reply(200, NoError)]

\* PATCH /api/v1/tickets/{ticket_id}
main_update_ticket(d, ticket_id, ticket_update, t) ==
    LET reply(code, detail) ==
            [op |-> "update_ticket", ticket_id |-> ticket_id,
             request |-> ticket_update, status_code |-> code,
             detail |-> detail]
    IN  IF get_ticket(d, ticket_id) = NoRow
        THEN [db |-> d, resp |-> reply(404, Detail("not_found"))]
        ELSE
        LET old_status == d.tickets[ticket_id].status
            error == IF attr(ticket_update.status) # None
                     THEN validate_status_transition(old_status,
                                                     ticket_update.status)
                     ELSE NoError
        IN  IF error # NoError
            THEN [db |-> d, resp |-> reply(400, error)]
            ELSE IF /\ attr(ticket_update.priority) # None
                    /\ ~validate_priority(ticket_update.priority)
            THEN [db |-> d, resp |-> reply(400, Detail("invalid_priority"))]
            ELSE
            LET u == crud_update_ticket(d, ticket_id, ticket_update, None, t)
            IN  IF u.raised # None
                THEN [db |-> d, resp |-> reply(500, Detail(u.raised))]
                ELSE IF /\ attr(ticket_update.status) # None
                        /\ ticket_update.status # old_status
                THEN [db |-> [u.db EXCEPT !.notifications =
                                 Append(@, new_notification(u.db, ticket_id,
                                     old_status, ticket_update.status, t))],
                      resp |-> reply(200, NoError)]
                ELSE [db |-> u.db, resp |-> reply(200, NoError)]

\* POST /api/v1/admin/tickets/bulk-update, for a caller that
\* get_current_admin has let through
main_bulk_update_tickets(d, bulk_update, t) ==
    LET r == bulk_update_ticket_status(d, bulk_update.ticket_ids,
                 bulk_update.new_status, bulk_update.changed_by, t)
    IN  [db |-> r.db,
         resp |-> [op |-> "bulk_update_tickets", status_code |-> 200,
                   request |-> bulk_update,
                   updated_count |-> r.updated_count,
                   requested_count |-> Len(bulk_update.ticket_ids),
                   success |-> r.updated_count > 0]]

\* POST /api/v1/admin/tickets/bulk-update with its dependency
\* get_current_admin: the body is not looked at when the dependency raises
bulk_update_tickets(d, credentials, bulk_update, t) ==
    IF get_current_admin(d, credentials, t) = NoRow
    THEN [db |-> d,
          resp |-> [op |-> "bulk_update_tickets", status_code |-> 401,
                    credentials |-> credentials]]
    ELSE LET r == main_bulk_update_tickets(d, bulk_update, t)
         IN  [db |-> r.db,
              resp |-> r.resp @@ [credentials |-> credentials]]

\* GET /api/v1/tickets/{ticket_id}/valid-statuses
main_get_valid_next_statuses(d, ticket_id) ==
    IF get_ticket(d, ticket_id) = NoRow
    THEN [db |-> d,
          resp |-> [op |-> "get_valid_next_statuses", status_code |-> 404,
                    ticket_id |-> ticket_id]]
    ELSE [db |-> d,
          resp |-> [op |-> "get_valid_next_statuses", status_code |-> 200,
                    ticket_id |-> ticket_id,
                    current_status |-> d.tickets[ticket_id].status,
                    valid_next_statuses |->
                        get_valid_next_statuses(d.tickets[ticket_id].status),
                    is_actionable |->
                        is_ticket_actionable(d.tickets[ticket_id].status)]]

\* ------------------------------------------------------------------------
\* The state machine: one step per request
\* ------------------------------------------------------------------------
\* the server processes that serve requests against the one store
Workers == 1..MaxWorkers

\* a process that is serving no update request
Idle ==
    [pc |-> "idle", ticket_id |-> NoRow,
     ticket_update |-> [status |-> Unset, priority |-> Unset,
                        estimated_cost |-> Unset, actual_cost |-> Unset,
                        notes |-> Unset],
     old_status |-> None, old_priority |-> None]

\* the admin startup_event creates when the admins table is empty
default_admin ==
    [username |-> "admin", hashed_password |-> get_password_hash("admin123"),
     is_active |-> 1, last_login |-> NoTime]

\* no request has been served
NoResponse == [op |-> "none", status_code |-> 0]

Init ==
    /\ customers = <<>>
    /\ devices = <<>>
    /\ tickets = <<>>
    /\ history = <<>>
    /\ notifications = <<>>
    /\ admins = <<default_admin>>
    /\ tokens = {}
    /\ now = 0
    /\ resp = NoResponse
    /\ procs = [w \in Workers |-> Idle]

\* the handler's outcome becomes the state
Store(r) ==
    /\ customers' = r.db.customers
    /\ devices' = r.db.devices
    /\ tickets' = r.db.tickets
    /\ history' = r.db.history
    /\ notifications' = r.db.notifications
    /\ admins' = r.db.admins
    /\ resp' = r.resp
    /\ procs' = procs

\* the engine is the one the deployment's DATABASE_URL names
CreateTicket ==
    \E ticket \in CreateRequests, engine \in Engines :
        /\ now < MaxClock
        /\ Len(tickets) < MaxTickets
        /\ now' = now + 1
        /\ tokens' = tokens
        /\ \E r \in {main_create_ticket(DB, ticket, now + 1, engine)} :
              Store(r)

\* the handler takes no credentials: the header the client sent is kept
\* next to the response
UpdateTicketOf(bodies) ==
    \E ticket_id \in TicketIds(DB), ticket_update \in bodies,
       credentials \in Credentials(tokens) :
        /\ now < MaxClock
        /\ now' = now + 1
        /\ tokens' = tokens
        /\ \E r \in {main_update_ticket(DB, ticket_id, ticket_update,
                                        now + 1)} :
              Store([db |-> r.db,
                     resp |-> r.resp @@ [credentials |-> credentials]])

UpdateTicket == UpdateTicketOf(UpdateRequests)

BulkUpdateTicketsOf(statuses, actors) ==
    \E ticket_ids \in BulkIdLists(DB), new_status \in statuses,
       changed_by \in actors :
        /\ now < MaxClock
        /\ now' = now + 1
        /\ tokens' = tokens
        /\ \E r \in {main_bulk_update_tickets(DB,
                        [ticket_ids |-> ticket_ids, new_status |-> new_status,
                         changed_by |-> changed_by], now + 1)} :
              Store(r)

BulkUpdateTickets == BulkUpdateTicketsOf(TicketStatus, ChangedBy)

GetValidNextStatuses ==
    \E ticket_id \in TicketIds(DB) :
        /\ now' = now
        /\ tokens' = tokens
        /\ \E r \in {main_get_valid_next_statuses(DB, ticket_id)} :
              Store(r)

Next ==
    \/ CreateTicket
    \/ UpdateTicket
    \/ BulkUpdateTickets
    \/ GetValidNextStatuses

Spec == Init /\ [][Next]_vars

\* ------------------------------------------------------------------------
\* The ledger state machine: status changes that carry a note, through the
\* single update, or an actor, through the bulk update
\* ------------------------------------------------------------------------
\* bodies of the single update: a status with or without a note
NotedUpdateRequests ==
    [status : {"diagnosed", "in_progress"}, priority : {Unset},
     estimated_cost : {Unset}, actual_cost : {Unset},
     notes : {Unset, "screen replaced"}]
\* changed_by of the bulk update: null, a name, the empty string
Actors == {None, "alice", ""}

NextLedger ==
    \/ CreateTicket
    \/ UpdateTicketOf(NotedUpdateRequests)
    \/ BulkUpdateTicketsOf({"diagnosed", "in_progress"}, Actors)

SpecLedger == Init /\ [][NextLedger]_vars

\* ------------------------------------------------------------------------
\* The identity state machine: logins, signups, the token-gated endpoints
\* and the administration of the active flag
\* ------------------------------------------------------------------------
\* the admins table startup_event can find: empty (it adds the default
\* admin), or holding an admin whose username has the form of an email
AdminTables ==
    {<<default_admin>>,
     <<[username |-> "a@x.com",
        hashed_password |-> get_password_hash("secret1"),
        is_active |-> 1, last_login |-> NoTime]>>}

InitAuth ==
    /\ customers = <<>>
    /\ devices = <<>>
    /\ tickets = <<>>
    /\ history = <<>>
    /\ notifications = <<>>
    /\ admins \in AdminTables
    /\ tokens = {}
    /\ now = 0
    /\ resp = NoResponse
    /\ procs = [w \in Workers |-> Idle]

\* the handler's outcome becomes the state, its token goes to the client
StoreIssued(r) ==
    /\ Store(r)
    /\ tokens' = tokens \cup r.issued

Login ==
    \E login_data \in LoginRequests :
        /\ now < MaxClock
        /\ now' = now + 1
        /\ \E r \in {main_login(DB, login_data, now + 1)} : StoreIssued(r)

CustomerSignup ==
    \E signup_data \in SignupRequests :
        /\ now < MaxClock
        /\ now' = now + 1
        /\ \E r \in {main_customer_signup(DB, signup_data, now + 1)} :
              StoreIssued(r)

CustomerLogin ==
    \E login_data \in CustomerLoginRequests :
        /\ now < MaxClock
        /\ now' = now + 1
        /\ \E r \in {main_customer_login(DB, login_data, now + 1)} :
              StoreIssued(r)

GetCurrentAdminInfo ==
    \E credentials \in Credentials(tokens) :
        /\ now' = now
        /\ tokens' = tokens
        /\ \E r \in {main_get_current_admin_info(DB, credentials, now)} :
              Store(r)

GetCustomerProfile ==
    \E credentials \in Credentials(tokens) :
        /\ now' = now
        /\ tokens' = tokens
        /\ \E r \in {main_get_customer_profile(DB, credentials, now)} :
              Store(r)

\* the bulk request as a client with a token sends it: one id, and a
\* status that is or is not a legal move from pending
AdminBulkUpdateTickets ==
    \E credentials \in Credentials(tokens), ticket_id \in TicketIds(DB),
       new_status \in {"diagnosed", "delivered"}, changed_by \in ChangedBy :
        /\ now < MaxClock
        /\ now' = now + 1
        /\ tokens' = tokens
        /\ \E r \in {bulk_update_tickets(DB, credentials,
                        [ticket_ids |-> <<ticket_id>>, new_status |-> new_status,
                         changed_by |-> changed_by], now + 1)} :
              Store(r)

\* the active flag of an admin is cleared in the store
DeactivateAdmin ==
    \E a \in DOMAIN admins :
        /\ admins[a].is_active = 1
        /\ admins' = [admins EXCEPT ![a].is_active = 0]
        /\ resp' = NoResponse
        /\ UNCHANGED <<customers, devices, tickets, history, notifications,
                       tokens, now, procs>>

\* the active flag of a customer is cleared in the store
DeactivateCustomer ==
    \E c \in DOMAIN customers :
        /\ customers[c].is_active = 1
        /\ customers' = [customers EXCEPT ![c].is_active = 0]
        /\ resp' = NoResponse
        /\ UNCHANGED <<devices, tickets, history, notifications, admins,
                       tokens, now, procs>>

NextAuth ==
    \/ CreateTicket
    \/ Login
    \/ CustomerSignup
    \/ CustomerLogin
    \/ GetCurrentAdminInfo
    \/ GetCustomerProfile
    \/ AdminBulkUpdateTickets
    \/ DeactivateAdmin
    \/ DeactivateCustomer

SpecAuth == InitAuth /\ [][NextAuth]_vars

\* ------------------------------------------------------------------------
\* The notification state machine: customers sign up and submit tickets,
\* staff update them, and customers mark the notifications they got
\* ------------------------------------------------------------------------
\* ids a request can name: the notifications of the store and one id that
\* matches none
NotificationIds(d) == 1..(Len(d.notifications) + 1)

MarkNotificationRead ==
    \E credentials \in Credentials(tokens),
       notification_id \in NotificationIds(DB) :
        /\ now' = now
        /\ tokens' = tokens
        /\ \E r \in {main_mark_notification_read(DB, credentials,
                                                 notification_id, now)} :
              Store(r)

GetCustomerNotifications ==
    \E credentials \in Credentials(tokens) :
        /\ now' = now
        /\ tokens' = tokens
        /\ \E r \in {main_get_customer_notifications(DB, credentials, now)} :
              Store(r)

NextNotify ==
    \/ CustomerSignup
    \/ CreateTicket
    \/ UpdateTicket
    \/ MarkNotificationRead
    \/ GetCustomerNotifications

SpecNotify == Init /\ [][NextNotify]_vars

\* ------------------------------------------------------------------------
\* The single-ticket update as the server processes run it: one step per
\* commit. The Session of a process keeps the ticket as it loaded it, and
\* each commit is visible to the other processes at once.
\* ------------------------------------------------------------------------
\* main.update_ticket up to the call of crud.update_ticket: 0 when the
\* request passes, else the status code and detail of the HTTPException
update_ticket_checks(d, ticket_id, ticket_update) ==
    IF get_ticket(d, ticket_id) = NoRow
    THEN [status_code |-> 404, detail |-> Detail("not_found")]
    ELSE LET error == IF attr(ticket_update.status) # None
                      THEN validate_status_transition(
                               d.tickets[ticket_id].status,
                               ticket_update.status)
                      ELSE NoError
         IN  IF error # NoError
             THEN [status_code |-> 400, detail |-> error]
             ELSE IF /\ attr(ticket_update.priority) # None
                     /\ ~validate_priority(ticket_update.priority)
             THEN [status_code |-> 400, detail |-> Detail("invalid_priority")]
             ELSE [status_code |-> 0, detail |-> NoError]

\* the response of process w to the request it served
worker_reply(w, p, code, detail) ==
    [op |-> "update_ticket", worker |-> w, ticket_id |-> p.ticket_id,
     request |-> p.ticket_update, status_code |-> code, detail |-> detail]

\* the status of the request differs from the one the Session loaded
status_modified(p) ==
    p.ticket_update.status # Unset /\ p.ticket_update.status # p.old_status

\* the ticket row after the UPDATE that the commit of crud.update_ticket
\* flushes: the attributes set to a value other than the loaded one,
\* updated_at, and completed_at when the status is completed or delivered
flushed_row(row, p, t) ==
    [row EXCEPT
       !.status = IF status_modified(p) THEN p.ticket_update.status ELSE @,
       !.priority = IF /\ p.ticket_update.priority # Unset
                       /\ p.ticket_update.priority # p.old_priority
                    THEN p.ticket_update.priority ELSE @,
       !.estimated_cost = IF p.ticket_update.estimated_cost # Unset
                          THEN p.ticket_update.estimated_cost ELSE @,
       !.actual_cost = IF p.ticket_update.actual_cost # Unset
                       THEN p.ticket_update.actual_cost ELSE @,
       !.notes = IF p.ticket_update.notes # Unset
                 THEN p.ticket_update.notes ELSE @,
       !.updated_at = t,
       !.completed_at = IF /\ p.ticket_update.status # Unset
                           /\ p.ticket_update.status \in
                                  Range(<<"completed", "delivered">>)
                        THEN t ELSE @]

\* bodies of the update requests that meet: two legal moves from pending
\* (one of them to a final status), an illegal one, a null status, and a
\* change of priority alone
ConcurrentUpdateRequests ==
    [status : {"diagnosed", "cancelled", "delivered", None},
     priority : {Unset}, estimated_cost : {Unset}, actual_cost : {Unset},
     notes : UpdateNotes]
    \cup [status : {Unset}, priority : {"HIGH"}, estimated_cost : {Unset},
          actual_cost : {Unset}, notes : UpdateNotes]

\* main.py 387-408 in process w: load the ticket, validate the request
\* against the loaded status, keep the loaded status as old_status
LoadAndValidateOf(w, bodies) ==
    \E ticket_id \in TicketIds(DB), ticket_update \in bodies :
        /\ procs[w].pc = "idle"
        /\ now < MaxClock
        /\ LET c == update_ticket_checks(DB, ticket_id, ticket_update)
               p == [pc |-> "commit_ticket", ticket_id |-> ticket_id,
                     ticket_update |-> ticket_update,
                     old_status |->
                         IF ticket_id \in DOMAIN tickets
                         THEN tickets[ticket_id].status ELSE None,
                     old_priority |->
                         IF ticket_id \in DOMAIN tickets
                         THEN tickets[ticket_id].priority ELSE None]
           IN  IF c.status_code # 0
               THEN /\ resp' = worker_reply(w, p, c.status_code, c.detail)
                    /\ procs' = procs
               ELSE /\ resp' = resp
                    /\ procs' = [procs EXCEPT ![w] = p]
        /\ UNCHANGED <<customers, devices, tickets, history, notifications,
                       admins, tokens, now>>

\* variant: after the commit of the ticket the process goes on to the
\* notification, and the history row is left out
Mutant_CommitTicket(w) ==
    LET p == procs[w]
        row == flushed_row(tickets[p.ticket_id], p, now + 1)
    IN  /\ p.pc = "commit_ticket"
        /\ now < MaxClock
        /\ now' = now + 1
        /\ IF row.status = None \/ row.priority = None
           THEN /\ tickets' = tickets
                /\ resp' = worker_reply(w, p, 500, Detail("IntegrityError"))
                /\ procs' = [procs EXCEPT ![w] = Idle]
           ELSE /\ tickets' = [tickets EXCEPT ![p.ticket_id] = row]
                /\ IF status_modified(p)
                   THEN /\ resp' = resp
                        /\ procs' = [procs EXCEPT
                                        ![w].pc = "commit_notification"]
                   ELSE /\ resp' = worker_reply(w, p, 200, NoError)
                        /\ procs' = [procs EXCEPT ![w] = Idle]
        /\ UNCHANGED <<customers, devices, history, notifications, admins,
                       tokens>>

LoadAndValidate(w) == LoadAndValidateOf(w, ConcurrentUpdateRequests)

\* crud.py 256-269 in process w: set the attributes and commit the ticket;
\* a NULL status or priority fails the commit and the request ends in 500
CommitTicket(w) ==
    LET p == procs[w]
        row == flushed_row(tickets[p.ticket_id], p, now + 1)
    IN  /\ p.pc = "commit_ticket"
        /\ now < MaxClock
        /\ now' = now + 1
        /\ IF row.status = None \/ row.priority = None
           THEN /\ tickets' = tickets
                /\ resp' = worker_reply(w, p, 500, Detail("IntegrityError"))
                /\ procs' = [procs EXCEPT ![w] = Idle]
           ELSE /\ tickets' = [tickets EXCEPT ![p.ticket_id] = row]
                /\ IF status_modified(p)
                   THEN /\ resp' = resp
                        /\ procs' = [procs EXCEPT ![w].pc = "commit_history"]
                   ELSE /\ resp' = worker_reply(w, p, 200, NoError)
                        /\ procs' = [procs EXCEPT ![w] = Idle]
        /\ UNCHANGED <<customers, devices, history, notifications, admins,
                       tokens>>

\* crud.py 272-280 in process w: the history row and its commit
CommitHistory(w) ==
    LET p == procs[w]
    IN  /\ p.pc = "commit_history"
        /\ history' = create_ticket_history(DB, p.ticket_id, p.old_status,
                          p.ticket_update.status, None,
                          attr(p.ticket_update.notes), now).history
        /\ procs' = [procs EXCEPT ![w].pc = "commit_notification"]
        /\ UNCHANGED <<customers, devices, tickets, notifications, admins,
                       tokens, now, resp>>

\* main.py 413-429 in process w: the notification, its commit, the response
CommitNotification(w) ==
    LET p == procs[w]
    IN  /\ p.pc = "commit_notification"
        /\ notifications' =
               Append(notifications,
                      new_notification(DB, p.ticket_id, p.old_status,
                                       p.ticket_update.status, now))
        /\ resp' = worker_reply(w, p, 200, NoError)
        /\ procs' = [procs EXCEPT ![w] = Idle]
        /\ UNCHANGED <<customers, devices, tickets, history, admins,
                       tokens, now>>

NextConc ==
    \/ CreateTicket
    \/ \E w \in Workers : LoadAndValidate(w)
    \/ \E w \in Workers : CommitTicket(w)
    \/ \E w \in Workers : CommitHistory(w)
    \/ \E w \in Workers : CommitNotification(w)

SpecConc == Init /\ [][NextConc]_vars

\* the update requests of the server processes against a store that
\* holds one ticket: the state after the first submission was served
InitOneTicket ==
    LET r == main_create_ticket(
                 [customers |-> <<>>, devices |-> <<>>, tickets |-> <<>>,
                  history |-> <<>>, notifications |-> <<>>,
                  admins |-> <<default_admin>>],
                 CHOOSE ticket \in CreateRequests : ticket.priority = "normal",
                 1, "sqlite")
    IN  /\ customers = r.db.customers
        /\ devices = r.db.devices
        /\ tickets = r.db.tickets
        /\ history = r.db.history
        /\ notifications = r.db.notifications
        /\ admins = r.db.admins
        /\ tokens = {}
        /\ now = 1
        /\ resp = r.resp
        /\ procs = [w \in Workers |-> Idle]

\* bodies of the update requests that meet there: two legal moves from
\* pending, one of them to a final status
RacingUpdateRequests ==
    [status : {"diagnosed", "cancelled"},
     priority : {Unset}, estimated_cost : {Unset}, actual_cost : {Unset},
     notes : UpdateNotes]

NextUpdates ==
    \/ \E w \in Workers : LoadAndValidateOf(w, RacingUpdateRequests)
    \/ \E w \in Workers : CommitTicket(w)
    \/ \E w \in Workers : CommitHistory(w)
    \/ \E w \in Workers : CommitNotification(w)

SpecUpdates == InitOneTicket /\ [][NextUpdates]_vars

\* ------------------------------------------------------------------------
\* The signup and the ticket submission as the server processes run them:
\* one step for the query by email and one for each commit that follows.
\* Both insert a customer when their query found none.
\* ------------------------------------------------------------------------
\* the response of process w to a signup
signup_reply(w, signup_data, code, detail, token) ==
    [op |-> "customer_signup", worker |-> w, request |-> signup_data,
     status_code |-> code, detail |-> detail, access_token |-> token]

\* the response of process w to a ticket submission
submit_reply(w, ticket, code, ticket_id) ==
    [op |-> "create_ticket", worker |-> w, request |-> ticket,
     status_code |-> code, ticket_id |-> ticket_id]

\* main.py 179-181 in process w: the query by email, and 400 when it
\* finds a customer
SignupQuery(w) ==
    \E signup_data \in SignupRequests :
        /\ procs[w].pc = "idle"
        /\ IF get_customer_by_email(DB, signup_data.email) # NoRow
           THEN /\ resp' = signup_reply(w, signup_data, 400,
                                        "Email already registered", NoToken)
                /\ procs' = procs
           ELSE /\ resp' = resp
                /\ procs' = [procs EXCEPT ![w] =
                                [pc |-> "signup_commit",
                                 request |-> signup_data]]
        /\ UNCHANGED <<customers, devices, tickets, history, notifications,
                       admins, tokens, now>>

\* main.py 184-206 in process w: the commit of the new customer and the
\* token; an IntegrityError of the commit is answered with 500
SignupCommit(w) ==
    LET p == procs[w]
        new_customer ==
            [email |-> p.request.email,
             hashed_password |-> get_password_hash(p.request.password),
             is_active |-> 1, created_at |-> now + 1, last_login |-> NoTime]
        r == insert_customer(DB, new_customer)
        access_token ==
            create_access_token(
                [sub |-> new_customer.email, type |-> "customer"], now + 1)
    IN  /\ p.pc = "signup_commit"
        /\ now < MaxClock
        /\ now' = now + 1
        /\ customers' = r.db.customers
        /\ IF r.raised # None
           THEN /\ tokens' = tokens
                /\ resp' = signup_reply(w, p.request, 500, r.raised, NoToken)
           ELSE /\ tokens' = tokens \cup {access_token}
                /\ resp' = signup_reply(w, p.request, 200, None, access_token)
        /\ procs' = [procs EXCEPT ![w] = Idle]
        /\ UNCHANGED <<devices, tickets, history, notifications, admins>>

\* crud.py 50-52 in process w: the query by email of get_or_create_customer
SubmitQuery(w) ==
    \E ticket \in CreateRequests :
        /\ procs[w].pc = "idle"
        /\ procs' = [procs EXCEPT ![w] =
               LET existing_customer ==
                       get_customer_by_email(DB, ticket.customer_email)
               IN  [pc |-> IF existing_customer # NoRow
                           THEN "submit_rows" ELSE "submit_customer",
                    request |-> ticket,
                    customer_id |-> existing_customer]]
        /\ UNCHANGED <<customers, devices, tickets, history, notifications,
                       admins, tokens, now, resp>>

\* crud.py 34-42 in process w: the commit of the new customer; main.py
\* 330-335 answers an IntegrityError of the commit with 500
SubmitCustomer(w) ==
    LET p == procs[w]
        r == insert_customer(DB,
                 [email |-> p.request.customer_email,
                  hashed_password |-> None, is_active |-> 1,
                  created_at |-> now + 1, last_login |-> NoTime])
    IN  /\ p.pc = "submit_customer"
        /\ now < MaxClock
        /\ now' = now + 1
        /\ customers' = r.db.customers
        /\ IF r.raised # None
           THEN /\ resp' = submit_reply(w, p.request, 500, NoRow)
                /\ procs' = [procs EXCEPT ![w] = Idle]
           ELSE /\ resp' = resp
                /\ procs' = [procs EXCEPT
                                ![w].pc = "submit_rows",
                                ![w].customer_id = Len(customers) + 1]
        /\ UNCHANGED <<devices, tickets, history, notifications, admins,
                       tokens>>

\* crud.py 154-177 in process w: the device and the ticket, which no
\* other request of this machine reads, on the engine of the deployment,
\* and the response
SubmitRows(w) ==
    \E engine \in Engines :
        LET p == procs[w]
            r == create_ticket_rows(DB, p.customer_id, p.request, now + 1,
                                    engine)
        IN  /\ p.pc = "submit_rows"
            /\ now < MaxClock
            /\ Len(tickets) < MaxTickets
            /\ now' = now + 1
            /\ devices' = r.db.devices
            /\ tickets' = r.db.tickets
            /\ resp' = submit_reply(w, p.request,
                                    IF r.raised # None THEN 500 ELSE 201,
                                    r.ticket)
            /\ procs' = [procs EXCEPT ![w] = Idle]
            /\ UNCHANGED <<customers, history, notifications, admins,
                           tokens>>

NextSignup ==
    \/ \E w \in Workers : SignupQuery(w)
    \/ \E w \in Workers : SignupCommit(w)
    \/ \E w \in Workers : SubmitQuery(w)
    \/ \E w \in Workers : SubmitCustomer(w)
    \/ \E w \in Workers : SubmitRows(w)

SpecSignup == Init /\ [][NextSignup]_vars

\* ------------------------------------------------------------------------
\* Vocabulary of the properties
\* ------------------------------------------------------------------------
\* the adjacency table as the specification prints it (section 4.1)
Adjacency ==
    [s \in TicketStatus |->
        CASE s = "pending"       -> {"diagnosed", "in_progress", "cancelled"}
          [] s = "diagnosed"     -> {"in_progress", "waiting_parts", "completed",
                                     "ready_pickup", "cancelled"}
          [] s = "in_progress"   -> {"waiting_parts", "completed", "ready_pickup",
                                     "cancelled"}
          [] s = "waiting_parts" -> {"in_progress", "cancelled"}
          [] s = "completed"     -> {"ready_pickup", "delivered"}
          [] s = "ready_pickup"  -> {"delivered", "in_progress"}
          [] s = "delivered"     -> {}
          [] s = "cancelled"     -> {}]

Terminal == {"delivered", "cancelled"}

\* an edge of the table, or no change at all
Allowed(current, proposed) ==
    proposed = current \/ proposed \in Adjacency[current]

\* the step just taken served a single-ticket update / a bulk update
UpdateStep == resp'.op = "update_ticket" /\ now' # now
BulkStep == resp'.op = "bulk_update_tickets" /\ now' # now

\* rows the step appended to a table
Appended(old, new) == SubSeq(new, Len(old) + 1, Len(new))

\* positions of the rows of a table that concern ticket t
RowsOf(table, t) == {i \in DOMAIN table : table[i].ticket_id = t}

\* the status of ticket t changed in the step
StatusChanged(t) == tickets'[t].status # tickets[t].status

\* first position of x in a list that holds it
FirstPos(list, x) ==
    CHOOSE k \in DOMAIN list :
        list[k] = x /\ \A m \in 1..(k - 1) : list[m] # x

\* ------------------------------------------------------------------------
\* C1: for every pair (current, proposed) of statuses,
\* is_valid_status_transition holds exactly when proposed = current or
\* proposed is in the adjacency set of current, get_valid_next_statuses
\* returns exactly that set (empty for delivered and cancelled), and the
\* valid-statuses query answers with it.
\* ------------------------------------------------------------------------
C1_TransitionTable ==
    /\ \A current \in TicketStatus, proposed \in TicketStatus :
          is_valid_status_transition(current, proposed)
              <=> (proposed = current \/ proposed \in Adjacency[current])
    /\ \A current \in TicketStatus :
          /\ Range(get_valid_next_statuses(current)) = Adjacency[current]
          /\ Len(get_valid_next_statuses(current))
                 = Cardinality(Adjacency[current])
    /\ get_valid_next_statuses("delivered") = <<>>
    /\ get_valid_next_statuses("cancelled") = <<>>
    /\ (resp.op = "get_valid_next_statuses" /\ resp.status_code = 200)
          => Range(resp.valid_next_statuses) = Adjacency[resp.current_status]

C1_Witness ==
    /\ resp.op = "get_valid_next_statuses"
    /\ resp.status_code = 200
    /\ resp.current_status = "delivered"
    /\ resp.valid_next_statuses = <<>>

\* ------------------------------------------------------------------------
\* C2: once a ticket is delivered or cancelled, no step changes its
\* status again.
\* ------------------------------------------------------------------------
C2_TerminalIsFinal ==
    [][\A t \in DOMAIN tickets :
          tickets[t].status \in Terminal
              => tickets'[t].status = tickets[t].status]_vars

C4_BulkSkipsInvalid ==
    [][BulkStep =>
          \A t \in DOMAIN tickets :
              (/\ t \in Range(resp'.request.ticket_ids)
               /\ ~Allowed(tickets[t].status, resp'.request.new_status))
                  => /\ tickets'[t].status = tickets[t].status
                     /\ tickets'[t].completed_at = tickets[t].completed_at
                     /\ RowsOf(history', t) = RowsOf(history, t)]_vars

\* ------------------------------------------------------------------------
\* C5: updated_count of a bulk update is the number of tickets whose
\* status changed in the call.
\* ------------------------------------------------------------------------
C5_CountIsChanged ==
    [][BulkStep =>
          resp'.updated_count =
              Cardinality({t \in DOMAIN tickets : StatusChanged(t)})]_vars

\* ------------------------------------------------------------------------
\* C6: an id that matches no ticket does not abort a bulk update: every
\* id of the list that names a ticket is processed, in list order;
\* requested_count is the length of the list, updated_count lies between
\* 0 and requested_count, and success is updated_count > 0.
\* ------------------------------------------------------------------------
C6_BulkRunsToEnd ==
    [][BulkStep =>
          LET ids == resp'.request.ticket_ids
              rows == Appended(history, history')
          IN  /\ resp'.requested_count = Len(ids)
              /\ 0 <= resp'.updated_count
              /\ resp'.updated_count <= resp'.requested_count
              /\ resp'.success <=> (resp'.updated_count > 0)
              /\ \A i \in DOMAIN ids :
                    ids[i] \in DOMAIN tickets
                        => /\ tickets'[ids[i]].updated_at = now'
                           /\ tickets'[ids[i]].status = resp'.request.new_status
              /\ \A i \in DOMAIN rows, j \in DOMAIN rows :
                    i < j => FirstPos(ids, rows[i].ticket_id)
                                 < FirstPos(ids, rows[j].ticket_id)]_vars

C6_Witness ==
    /\ resp.op = "bulk_update_tickets"
    /\ resp.requested_count = 2
    /\ resp.updated_count = 1
    /\ resp.success
    /\ resp.request.ticket_ids[1] \notin DOMAIN tickets
    /\ resp.request.ticket_ids[2] \in DOMAIN tickets
    /\ tickets[resp.request.ticket_ids[2]].updated_at = now
    /\ tickets[resp.request.ticket_ids[2]].status = resp.request.new_status

\* ------------------------------------------------------------------------
\* C7: a step that changes the status of a ticket from old to new appends
\* exactly one TicketHistory row for it, with old_status = old and
\* new_status = new; a step that leaves its status as it was appends no
\* row for it; rows already there stay as they are.
\* ------------------------------------------------------------------------
C7_OneRowPerChange ==
    [][/\ SubSeq(history', 1, Len(history)) = history
       /\ \A t \in DOMAIN tickets :
             LET added == RowsOf(history', t) \ RowsOf(history, t)
             IN  IF StatusChanged(t)
                 THEN /\ Cardinality(added) = 1
                      /\ \A i \in added :
                            /\ history'[i].old_status = tickets[t].status
                            /\ history'[i].new_status = tickets'[t].status
                 ELSE added = {}]_vars

C7_Witness ==
    /\ resp.op = "update_ticket"
    /\ resp.status_code = 200
    /\ resp.request.status = "diagnosed"
    /\ Len(history) = 1
    /\ history[1].ticket_id = resp.ticket_id
    /\ history[1].old_status = "pending"
    /\ history[1].new_status = "diagnosed"
    /\ tickets[resp.ticket_id].status = "diagnosed"

\* ------------------------------------------------------------------------
\* C8 as stated: every step that changes the status of a ticket adds
\* exactly one CustomerNotification for it, unread, addressed to the
\* customer of the ticket and carrying the old and the new status; a
\* step that does not change its status adds none.
\* ------------------------------------------------------------------------
NotifiesOnce(t) ==
    LET added == RowsOf(notifications', t) \ RowsOf(notifications, t)
    IN  /\ Cardinality(added) = 1
        /\ \A i \in added :
              /\ notifications'[i].is_read = 0
              /\ notifications'[i].customer_id = tickets'[t].customer_id
              /\ notifications'[i].message.ticket_id = t
              /\ notifications'[i].message.old_status = tickets[t].status
              /\ notifications'[i].message.new_status = tickets'[t].status

NotifiesNever(t) ==
    RowsOf(notifications', t) = RowsOf(notifications, t)

C8_EveryChangeNotifies ==
    [][\A t \in DOMAIN tickets :
          IF StatusChanged(t) THEN NotifiesOnce(t) ELSE NotifiesNever(t)]_vars

\* ------------------------------------------------------------------------
\* C8 as amended: a single-ticket update that changes the status of a
\* ticket adds exactly one CustomerNotification for it, unread, addressed
\* to the customer of the ticket and carrying the old and the new status;
\* a single-ticket update that does not change the status, and every bulk
\* update, adds none; rows already there stay as they are.
\* ------------------------------------------------------------------------
C8_SingleUpdateNotifies ==
    [][/\ SubSeq(notifications', 1, Len(notifications)) = notifications
       /\ \A t \in DOMAIN tickets :
             IF UpdateStep /\ StatusChanged(t)
             THEN NotifiesOnce(t)
             ELSE NotifiesNever(t)]_vars

C8_Witness ==
    /\ resp.op = "update_ticket"
    /\ resp.status_code = 200
    /\ resp.request.status = "in_progress"
    /\ Len(notifications) = 1
    /\ notifications[1].ticket_id = resp.ticket_id
    /\ notifications[1].is_read = 0
    /\ notifications[1].message.new_status = "in_progress"
    /\ tickets[resp.ticket_id].status = "in_progress"

\* ------------------------------------------------------------------------
\* C9: once completed_at of a ticket is set, no step changes its value.
\* ------------------------------------------------------------------------
C9_CompletedAtStable ==
    [][\A t \in DOMAIN tickets :
          tickets[t].completed_at # NoTime
              => tickets'[t].completed_at = tickets[t].completed_at]_vars

\* ------------------------------------------------------------------------
\* C10: completed_at of a ticket is set if and only if the ticket is, or
\* at some earlier point was, completed or delivered.
\* ------------------------------------------------------------------------
HasBeenDone(t) ==
    \/ tickets[t].status \in {"completed", "delivered"}
    \/ \E i \in RowsOf(history, t) :
          \/ history[i].new_status \in {"completed", "delivered"}
          \/ history[i].old_status \in {"completed", "delivered"}

C10_CompletedAtIffDone ==
    \A t \in DOMAIN tickets :
        tickets[t].completed_at # NoTime <=> HasBeenDone(t)

C10_Witness ==
    \E t \in DOMAIN tickets :
        /\ tickets[t].completed_at # NoTime
        /\ tickets[t].status = "ready_pickup"
        /\ HasBeenDone(t)

\* ------------------------------------------------------------------------
\* C13: a single-ticket update that is rejected (no such ticket, invalid
\* transition, invalid priority) leaves every row of every table as it
\* was, also when the request carries other fields that are valid.
\* ------------------------------------------------------------------------
C13_RejectedUpdateChangesNothing ==
    [][(UpdateStep /\ resp'.status_code \in {400, 404})
          => /\ tickets' = tickets
             /\ history' = history
             /\ notifications' = notifications
             /\ customers' = customers
             /\ devices' = devices]_vars

C13_Witness ==
    /\ resp.op = "update_ticket"
    /\ resp.status_code = 400
    /\ resp.detail.kind = "invalid_priority"
    /\ resp.request.status = "diagnosed"
    /\ resp.request.priority = "bogus"
    /\ tickets[resp.ticket_id].status = "pending"
    /\ tickets[resp.ticket_id].updated_at < now
    /\ history = <<>>
    /\ notifications = <<>>

\* ------------------------------------------------------------------------
\* C19: the status of every ticket is one of the 8 statuses, and the
\* ticket a creation request has just created is pending.
\* ------------------------------------------------------------------------
C19_StatusInEnumeration ==
    /\ \A t \in DOMAIN tickets : tickets[t].status \in TicketStatus
    /\ (resp.op = "create_ticket" /\ resp.status_code = 201)
           => tickets[resp.ticket_id].status = "pending"

\* an update that writes null to the status has been refused
C19_Witness ==
    /\ resp.op = "update_ticket"
    /\ resp.request.status = None
    /\ resp.status_code = 500
    /\ tickets[resp.ticket_id].status \in TicketStatus
    /\ \E t \in DOMAIN tickets : tickets[t].status # "pending"

\* ------------------------------------------------------------------------
\* C20: the priority of every ticket is one of low, normal, high, urgent,
\* compared without regard to case.
\* ------------------------------------------------------------------------
C20_PriorityInFixedSet ==
    \A t \in DOMAIN tickets :
        lower(tickets[t].priority) \in {"low", "normal", "high", "urgent"}

\* ------------------------------------------------------------------------
\* C14: every single-ticket update that changes the status of a ticket
\* serves a request whose bearer token resolves to an admin or a customer.
\* ------------------------------------------------------------------------
C14_StatusChangeNeedsToken ==
    [][(UpdateStep /\ \E t \in DOMAIN tickets : StatusChanged(t))
          => \/ get_current_admin(DB, resp'.credentials, now') # NoRow
             \/ get_current_customer(DB, resp'.credentials, now') # NoRow]_vars

\* ------------------------------------------------------------------------
\* C15: an admin-gated endpoint never answers 200 to a token issued to a
\* customer (one that carries type customer), and a customer-gated
\* endpoint never answers 200 to a token issued to an admin (one that
\* carries no type).
\* ------------------------------------------------------------------------
AdminGated == {"get_current_admin_info", "bulk_update_tickets"}
CustomerGated == {"get_customer_profile"}

C15_TokenKindMatchesEndpoint ==
    /\ (resp.op \in AdminGated /\ resp.status_code = 200)
          => resp.credentials.type # "customer"
    /\ (resp.op \in CustomerGated /\ resp.status_code = 200)
          => resp.credentials.type = "customer"

\* ------------------------------------------------------------------------
\* C16: a token-gated endpoint answers 200 only when the principal the
\* token resolves to is active at the time of the request.
\* ------------------------------------------------------------------------
C16_ResolvedPrincipalIsActive ==
    /\ (resp.op = "get_current_admin_info" /\ resp.status_code = 200)
          => admins[resp.admin_id].is_active = 1
    /\ (resp.op = "get_customer_profile" /\ resp.status_code = 200)
          => customers[resp.customer_id].is_active = 1

\* ------------------------------------------------------------------------
\* Vocabulary of the login properties
\* ------------------------------------------------------------------------
\* the step just taken served an admin login / a customer login
LoginStep == resp'.op = "login" /\ now' # now
CustomerLoginStep == resp'.op = "customer_login" /\ now' # now

\* the store holds a principal with this identifier whose digest is the
\* digest of this password
AdminVerifies(username, password) ==
    \E a \in DOMAIN admins :
        /\ admins[a].username = username
        /\ admins[a].hashed_password = get_password_hash(password)
CustomerVerifies(email, password) ==
    \E c \in DOMAIN customers :
        /\ customers[c].email = email
        /\ customers[c].hashed_password = get_password_hash(password)

\* the store holds an active principal with this identifier
AdminActive(username) ==
    \E a \in DOMAIN admins :
        admins[a].username = username /\ admins[a].is_active = 1
CustomerActive(email) ==
    \E c \in DOMAIN customers :
        customers[c].email = email /\ customers[c].is_active = 1

\* the step wrote nothing to the store and sent no token
NothingWrittenOrIssued ==
    /\ admins' = admins
    /\ customers' = customers
    /\ tokens' = tokens
    /\ resp'.access_token = NoToken

\* ------------------------------------------------------------------------
\* C17: a login whose identifier is unknown, whose principal has no
\* digest, or whose password does not match the digest is answered 401
\* with one message per endpoint, writes nothing and sends no token.
\* ------------------------------------------------------------------------
C17_LoginFailsClosed ==
    [][/\ (LoginStep /\ ~AdminVerifies(resp'.request.username,
                                       resp'.request.password))
             => /\ resp'.status_code = 401
                /\ resp'.detail = "Incorrect username or password"
                /\ NothingWrittenOrIssued
       /\ (CustomerLoginStep /\ ~CustomerVerifies(resp'.request.email,
                                                  resp'.request.password))
             => /\ resp'.status_code = 401
                /\ resp'.detail = "Incorrect email or password"
                /\ NothingWrittenOrIssued]_vars

\* a customer without a digest has been refused, and the store also holds
\* a customer with a digest
C17_Witness ==
    /\ resp.op = "customer_login"
    /\ resp.status_code = 401
    /\ \E c \in DOMAIN customers :
          /\ customers[c].email = resp.request.email
          /\ customers[c].hashed_password = None
    /\ \E c \in DOMAIN customers : customers[c].hashed_password # None

\* ------------------------------------------------------------------------
\* C18: a login with correct credentials for an inactive principal is
\* answered 403 with a message of its own, writes nothing and sends no
\* token; a login sends a token or writes last_login only when the
\* credentials verify and the principal is active.
\* ------------------------------------------------------------------------
C18_InactiveLoginForbidden ==
    [][/\ (LoginStep /\ AdminVerifies(resp'.request.username,
                                      resp'.request.password)
                     /\ ~AdminActive(resp'.request.username))
             => /\ resp'.status_code = 403
                /\ resp'.detail = "Admin account is inactive"
                /\ NothingWrittenOrIssued
       /\ (CustomerLoginStep /\ CustomerVerifies(resp'.request.email,
                                                 resp'.request.password)
                             /\ ~CustomerActive(resp'.request.email))
             => /\ resp'.status_code = 403
                /\ resp'.detail = "Account is inactive"
                /\ NothingWrittenOrIssued
       /\ (LoginStep /\ ~NothingWrittenOrIssued)
             => /\ AdminVerifies(resp'.request.username,
                                 resp'.request.password)
                /\ AdminActive(resp'.request.username)
                /\ resp'.status_code = 200
                /\ resp'.access_token \in tokens'
                /\ \E a \in DOMAIN admins :
                      /\ admins[a].username = resp'.request.username
                      /\ admins'[a].last_login = now'
       /\ (CustomerLoginStep /\ ~NothingWrittenOrIssued)
             => /\ CustomerVerifies(resp'.request.email,
                                    resp'.request.password)
                /\ CustomerActive(resp'.request.email)
                /\ resp'.status_code = 200
                /\ resp'.access_token \in tokens'
                /\ \E c \in DOMAIN customers :
                      /\ customers[c].email = resp'.request.email
                      /\ customers'[c].last_login = now']_vars

\* a customer who had logged in was deactivated and then refused
C18_Witness ==
    /\ resp.op = "customer_login"
    /\ resp.status_code = 403
    /\ \E c \in DOMAIN customers :
          /\ customers[c].email = resp.request.email
          /\ customers[c].hashed_password =
                 get_password_hash(resp.request.password)
          /\ customers[c].is_active = 0
          /\ customers[c].last_login # NoTime
          /\ customers[c].last_login < now

\* ------------------------------------------------------------------------
\* C11: in every state the store shows to a request, the status of each
\* ticket is the new status of the last history row of that ticket (and
\* pending when the ticket has no history row): no change of status is
\* visible without its row, and no row without its change.
\* ------------------------------------------------------------------------
LastRow(t) ==
    CHOOSE i \in RowsOf(history, t) : \A j \in RowsOf(history, t) : j <= i

C11_StatusAndHistoryAgree ==
    \A t \in DOMAIN tickets :
        tickets[t].status = IF RowsOf(history, t) = {}
                            THEN "pending"
                            ELSE history[LastRow(t)].new_status

\* ------------------------------------------------------------------------
\* C12: whatever the interleaving of the update requests of two processes,
\* every committed change of a ticket's status is an edge of the
\* transition table from the status the store held when it was committed.
\* ------------------------------------------------------------------------
C12_CommittedChangeIsLegal ==
    [][\A t \in DOMAIN tickets :
          StatusChanged(t)
              => tickets'[t].status \in Adjacency[tickets[t].status]]_vars

\* ------------------------------------------------------------------------
\* C22: validate_status_transition returns no reason when proposed =
\* current (terminal or not); a rejection from a non-terminal status names
\* both statuses and lists exactly the adjacency set of the current one; a
\* change proposed from delivered or cancelled is rejected in the separate
\* final-state form; and a single update refused with 400 carries the list
\* of the status the ticket has.
\* ------------------------------------------------------------------------
C22_RejectionReasons ==
    /\ \A current \in TicketStatus, proposed \in TicketStatus :
          LET reason == validate_status_transition(current, proposed)
          IN  /\ proposed = current => reason = NoError
              /\ (reason # NoError /\ current \notin Terminal)
                    => /\ reason.kind = "cannot_transition"
                       /\ reason.current = current
                       /\ reason.proposed = proposed
                       /\ Range(reason.valid_list) = Adjacency[current]
                       /\ Len(reason.valid_list)
                              = Cardinality(Adjacency[current])
              /\ (current \in Terminal /\ proposed # current)
                    => /\ reason.kind = "final_state"
                       /\ reason.current = current
                       /\ reason.valid_list = <<>>
    /\ (/\ resp.op = "update_ticket"
        /\ resp.status_code = 400
        /\ resp.detail.kind \in {"cannot_transition", "final_state"})
          => LET current == tickets[resp.ticket_id].status
             IN  /\ resp.detail.current = current
                 /\ resp.detail.kind = "final_state" <=> current \in Terminal
                 /\ current \notin Terminal
                       => Range(resp.detail.valid_list) = Adjacency[current]

\* a move back from diagnosed to pending has been refused with the five
\* statuses that follow diagnosed
C22_Witness ==
    /\ resp.op = "update_ticket"
    /\ resp.status_code = 400
    /\ resp.request.status = "pending"
    /\ tickets[resp.ticket_id].status = "diagnosed"
    /\ resp.detail.kind = "cannot_transition"
    /\ Range(resp.detail.valid_list)
           = {"in_progress", "waiting_parts", "completed", "ready_pickup",
              "cancelled"}

\* ------------------------------------------------------------------------
\* C27: the valid-next-statuses query answers, for a ticket of the store,
\* with the status the ticket has, with exactly the adjacency set of that
\* status, and with is_actionable true unless the status is delivered or
\* cancelled; is_actionable is false exactly when the list is empty.
\* ------------------------------------------------------------------------
C27_ValidNextQuery ==
    (resp.op = "get_valid_next_statuses" /\ resp.status_code = 200)
        => /\ resp.ticket_id \in DOMAIN tickets
           /\ resp.current_status = tickets[resp.ticket_id].status
           /\ Range(resp.valid_next_statuses)
                  = Adjacency[tickets[resp.ticket_id].status]
           /\ Len(resp.valid_next_statuses)
                  = Cardinality(Adjacency[tickets[resp.ticket_id].status])
           /\ resp.is_actionable <=> resp.current_status \notin Terminal
           /\ ~resp.is_actionable <=> resp.valid_next_statuses = <<>>

\* the query has been answered for a cancelled ticket
C27_Witness ==
    /\ resp.op = "get_valid_next_statuses"
    /\ resp.status_code = 200
    /\ tickets[resp.ticket_id].status = "cancelled"
    /\ resp.current_status = "cancelled"
    /\ resp.valid_next_statuses = <<>>
    /\ resp.is_actionable = FALSE

\* ------------------------------------------------------------------------
\* C24: no step edits or removes a row of the history table: the table
\* after a step is the table before it with rows appended, so the rows of
\* every ticket in a later state extend its rows in every earlier state.
\* ------------------------------------------------------------------------
C24_HistoryAppendOnly ==
    [][/\ Len(history') >= Len(history)
       /\ SubSeq(history', 1, Len(history)) = history]_vars

\* a ticket has two history rows, the first as it was written
C24_Witness ==
    /\ Len(history) = 2
    /\ history[1].ticket_id = history[2].ticket_id
    /\ history[1].old_status = "pending"
    /\ history[1].changed_at < history[2].changed_at

\* ------------------------------------------------------------------------
\* C28: with the clock never running backwards, no step lowers the
\* updated_at of a ticket; a step that changes a ticket row leaves its
\* updated_at at the clock value of the step; so does every single update
\* answered 200, the one that changes no value included, and every bulk
\* update for each ticket of the store it names.
\* ------------------------------------------------------------------------
C28_UpdatedAtFollowsClock ==
    [][/\ now' >= now
       /\ \A t \in DOMAIN tickets :
             /\ tickets'[t].updated_at >= tickets[t].updated_at
             /\ tickets'[t] # tickets[t] => tickets'[t].updated_at = now'
             /\ (/\ UpdateStep
                 /\ resp'.status_code = 200
                 /\ resp'.ticket_id = t)
                   => tickets'[t].updated_at = now'
             /\ (BulkStep /\ t \in Range(resp'.request.ticket_ids))
                   => tickets'[t].updated_at = now']_vars

\* an update that carries no field has been answered 200: the ticket is
\* as created but for its updated_at, which is the time of the update
C28_Witness ==
    /\ resp.op = "update_ticket"
    /\ resp.status_code = 200
    /\ resp.request.status = Unset
    /\ resp.request.priority = Unset
    /\ resp.request.notes = Unset
    /\ resp.request.actual_cost = Unset
    /\ tickets[resp.ticket_id].status = "pending"
    /\ tickets[resp.ticket_id].updated_at = now
    /\ tickets[resp.ticket_id].created_at < now

\* ------------------------------------------------------------------------
\* C30: when requests are served one after the other, the history rows of
\* every ticket, in the order they were appended, form a chain: the first
\* row starts at pending, each row starts at the status the row before it
\* ends at, no row starts and ends at the same status, and the last row
\* ends at the status the ticket has; a ticket without rows is pending.
\* ------------------------------------------------------------------------
HistoryOf(t) == SelectSeq(history, LAMBDA row : row.ticket_id = t)

C30_HistoryChain ==
    \A t \in DOMAIN tickets :
        LET rows == HistoryOf(t)
        IN  IF rows = <<>>
            THEN tickets[t].status = "pending"
            ELSE /\ rows[1].old_status = "pending"
                 /\ \A i \in 2..Len(rows) :
                       rows[i].old_status = rows[i - 1].new_status
                 /\ \A i \in DOMAIN rows :
                       rows[i].old_status # rows[i].new_status
                 /\ rows[Len(rows)].new_status = tickets[t].status

\* a ticket was moved by a single update and then by a bulk update
C30_Witness ==
    /\ resp.op = "bulk_update_tickets"
    /\ \E t \in DOMAIN tickets :
          /\ Len(HistoryOf(t)) = 2
          /\ HistoryOf(t)[2].changed_at = now
          /\ HistoryOf(t)[2].old_status = HistoryOf(t)[1].new_status
          /\ HistoryOf(t)[1].changed_at < now
          /\ HistoryOf(t)[2].new_status = tickets[t].status

\* ------------------------------------------------------------------------
\* C21: a single-ticket update leaves every one of status, priority,
\* estimated_cost, actual_cost and notes that its request does not carry
\* as it was, and leaves every other ticket as it was; no step changes the
\* customer_id, the device_id or the created_at of a ticket.
\* ------------------------------------------------------------------------
UpdatableFields ==
    {"status", "priority", "estimated_cost", "actual_cost", "notes"}

C21_PartialUpdate ==
    [][\A t \in DOMAIN tickets :
          /\ tickets'[t].customer_id = tickets[t].customer_id
          /\ tickets'[t].device_id = tickets[t].device_id
          /\ tickets'[t].created_at = tickets[t].created_at
          /\ (UpdateStep /\ resp'.ticket_id = t)
                => \A f \in UpdatableFields :
                      resp'.request[f] = Unset
                          => tickets'[t][f] = tickets[t][f]
          /\ (UpdateStep /\ resp'.ticket_id # t)
                => tickets'[t] = tickets[t]]_vars

\* a ticket created with notes and an estimated cost has been moved to
\* diagnosed by a request that carries the status alone
C21_Witness ==
    /\ resp.op = "update_ticket"
    /\ resp.status_code = 200
    /\ resp.request.status = "diagnosed"
    /\ resp.request.priority = Unset
    /\ resp.request.notes = Unset
    /\ resp.request.estimated_cost = Unset
    /\ tickets[resp.ticket_id].status = "diagnosed"
    /\ tickets[resp.ticket_id].notes = "cracked screen"
    /\ tickets[resp.ticket_id].estimated_cost = "50.0"
    /\ tickets[resp.ticket_id].actual_cost = None
    /\ tickets[resp.ticket_id].updated_at = now
    /\ tickets[resp.ticket_id].created_at < now

\* ------------------------------------------------------------------------
\* C29: every token the server has issued, at an admin login, a customer
\* signup or a customer login, carries a subject, the kind of principal
\* it was issued to (admin or customer) and an expiry later than the time
\* it was issued at.
\* ------------------------------------------------------------------------
C29_TokenEmbedsClaims ==
    \A token \in tokens :
        /\ token.sub # None
        /\ token.type \in {"admin", "customer"}
        /\ token.exp # NoTime
        /\ token.exp > now - 1

\* ------------------------------------------------------------------------
\* C23: the read flag of a notification is 0 or 1; no step takes it from 1
\* back to 0; and a mark-as-read request answered 200 leaves the flag of
\* the notification it names at 1, whether it was 0 or 1 before.
\* ------------------------------------------------------------------------
C23_ReadFlagOnlyRises ==
    [][/\ \A n \in DOMAIN notifications :
             /\ notifications[n].is_read \in {0, 1}
             /\ notifications[n].is_read = 1 => notifications'[n].is_read = 1
       /\ (resp'.op = "mark_notification_read" /\ resp'.status_code = 200)
             => notifications'[resp'.notification_id].is_read = 1]_vars

\* a customer has marked the notification of their ticket as read
C23_Witness ==
    /\ resp.op = "mark_notification_read"
    /\ resp.status_code = 200
    /\ notifications[resp.notification_id].is_read = 1
    /\ notifications[resp.notification_id].customer_id
           = get_current_customer(DB, resp.credentials, now)
    /\ notifications[resp.notification_id].created_at = now

\* ------------------------------------------------------------------------
\* C26: in every state, no device is the device of two tickets and every
\* device is the device of some ticket; the ticket a submission has just
\* created has the newest device.
\* ------------------------------------------------------------------------
C26_OneDevicePerTicket ==
    /\ \A t1 \in DOMAIN tickets, t2 \in DOMAIN tickets :
          t1 # t2 => tickets[t1].device_id # tickets[t2].device_id
    /\ \A device \in DOMAIN devices :
          \E t \in DOMAIN tickets : tickets[t].device_id = device
    /\ (resp.op = "create_ticket" /\ resp.status_code = 201)
          => tickets[resp.ticket_id].device_id = Len(devices)

\* ------------------------------------------------------------------------
\* C25: however signups and ticket submissions interleave, no two
\* customer rows share an email. The customer of the ticket a submission
\* creates is the row that has the email of the request, and a submission
\* that finds that email in the table inserts no customer. A signup that
\* finds its email in the table is answered 400 and changes nothing; a
\* signup whose email enters the table between its query and its commit
\* is refused by the commit and changes nothing either.
\* ------------------------------------------------------------------------
EmailKnown(email) == \E c \in DOMAIN customers : customers[c].email = email

C25_EmailsUnique ==
    [][/\ \A c1 \in DOMAIN customers', c2 \in DOMAIN customers' :
             customers'[c1].email = customers'[c2].email => c1 = c2
       /\ \A w \in Workers :
             /\ (/\ procs[w].pc = "submit_rows"
                 /\ procs'[w].pc = "idle"
                 /\ resp'.status_code = 201)
                   => /\ customers' = customers
                      /\ customers[tickets'[resp'.ticket_id].customer_id].email
                             = resp'.request.customer_email
             /\ (/\ procs[w].pc = "idle"
                 /\ procs'[w].pc \in {"submit_rows", "submit_customer"})
                   => /\ customers' = customers
                      /\ procs'[w].pc = "submit_rows"
                            <=> EmailKnown(procs'[w].request.customer_email)
             /\ (/\ procs[w].pc = "idle"
                 /\ procs'[w].pc = "signup_commit")
                   => ~EmailKnown(procs'[w].request.email)
             /\ (/\ procs[w].pc = "signup_commit"
                 /\ procs'[w].pc = "idle"
                 /\ EmailKnown(procs[w].request.email))
                   => /\ resp'.status_code = 500
                      /\ UNCHANGED <<customers, devices, tickets, history,
                                     notifications, admins, tokens>>
       /\ (/\ procs' = procs
           /\ resp'.op = "customer_signup"
           /\ resp' # resp)
             => /\ resp'.status_code = 400
                /\ EmailKnown(resp'.request.email)
                /\ UNCHANGED <<customers, devices, tickets, history,
                               notifications, admins, tokens>>]_vars

\* a signup was refused at its commit because a submission inserted the
\* customer of that email after the signup's query
C25_Witness ==
    /\ resp.op = "customer_signup"
    /\ resp.status_code = 500
    /\ Len(customers) = 1
    /\ customers[1].email = resp.request.email
    /\ customers[1].hashed_password = None
    /\ tokens = {}

\* ------------------------------------------------------------------------
\* C31: in the graph whose edges are the status changes that
\* is_valid_status_transition allows, every status is reached from pending,
\* every status other than delivered and cancelled reaches one of the two,
\* and no edge from another status ends at pending; the statuses the
\* valid-statuses query lists for a ticket are edges of that graph.
\* ------------------------------------------------------------------------
\* the statuses a legal change leads to from a status of S, and S itself
LegalStep(S) ==
    S \cup {proposed \in TicketStatus :
               \E current \in S :
                   is_valid_status_transition(current, proposed)}

\* the statuses reached from S by at most n legal changes
RECURSIVE LegalWithin(_, _)
LegalWithin(S, n) == IF n = 0 THEN S ELSE LegalWithin(LegalStep(S), n - 1)

LegalFrom ==
    [s \in TicketStatus |-> LegalWithin({s}, Cardinality(TicketStatus))]

C31_NoTrapNoOrphan ==
    /\ LegalFrom["pending"] = TicketStatus
    /\ \A s \in TicketStatus \ Terminal : LegalFrom[s] \cap Terminal # {}
    /\ \A s \in TicketStatus \ {"pending"} :
          /\ ~is_valid_status_transition(s, "pending")
          /\ "pending" \notin Range(get_valid_next_statuses(s))
    /\ (resp.op = "get_valid_next_statuses" /\ resp.status_code = 200)
          => /\ resp.current_status \in LegalFrom["pending"]
             /\ Range(resp.valid_next_statuses)
                    \subseteq LegalFrom[resp.current_status] \ {"pending"}
             /\ resp.is_actionable
                    => LegalFrom[resp.current_status] \cap Terminal # {}

\* a ticket went from pending over diagnosed to ready_pickup, and the
\* query lists delivered as a next status
C31_Witness ==
    /\ resp.op = "get_valid_next_statuses"
    /\ resp.status_code = 200
    /\ resp.current_status = "ready_pickup"
    /\ "delivered" \in Range(resp.valid_next_statuses)
    /\ Len(HistoryOf(resp.ticket_id)) = 2
    /\ HistoryOf(resp.ticket_id)[1].new_status = "diagnosed"
    /\ HistoryOf(resp.ticket_id)[2].old_status = "diagnosed"

\* ------------------------------------------------------------------------
\* C32: in every state, the states between the commits of one update
\* included, each notification has a history row of the same ticket with
\* the same old and new status that was written no later, the ticket of
\* each history row has been updated since it was created, and no ticket
\* has more notifications than history rows.
\* ------------------------------------------------------------------------
C32_StatusThenHistoryThenNotification ==
    /\ \A n \in DOMAIN notifications :
          \E h \in DOMAIN history :
              /\ history[h].ticket_id = notifications[n].ticket_id
              /\ history[h].old_status = notifications[n].message.old_status
              /\ history[h].new_status = notifications[n].message.new_status
              /\ history[h].changed_at <= notifications[n].created_at
    /\ \A h \in DOMAIN history :
          /\ history[h].ticket_id \in DOMAIN tickets
          /\ tickets[history[h].ticket_id].updated_at
                 > tickets[history[h].ticket_id].created_at
          /\ history[h].changed_at > tickets[history[h].ticket_id].created_at
    /\ \A t \in DOMAIN tickets :
          Cardinality(RowsOf(notifications, t))
              <= Cardinality(RowsOf(history, t))

\* a process has committed the ticket and the history row of a change and
\* not yet the notification
C32_Witness ==
    /\ \E w \in Workers :
          /\ procs[w].pc = "commit_notification"
          /\ tickets[procs[w].ticket_id].status = procs[w].ticket_update.status
          /\ Cardinality(RowsOf(history, procs[w].ticket_id)) = 1
    /\ notifications = <<>>

\* ------------------------------------------------------------------------
\* C33: in every state the customer_id of each notification is the
\* customer_id of the ticket the notification refers to, and the list a
\* customer gets from the notifications endpoint holds all notifications
\* about that customer's tickets and no other.
\* ------------------------------------------------------------------------
C33_NotificationGoesToOwner ==
    /\ \A n \in DOMAIN notifications :
          /\ notifications[n].ticket_id \in DOMAIN tickets
          /\ notifications[n].customer_id
                 = tickets[notifications[n].ticket_id].customer_id
    /\ (resp.op = "get_customer_notifications" /\ resp.status_code = 200)
          => Range(resp.notifications)
                 = {n \in DOMAIN notifications :
                       tickets[notifications[n].ticket_id].customer_id
                           = resp.customer_id}

\* a customer who signed up has listed the notification about their ticket
C33_Witness ==
    /\ resp.op = "get_customer_notifications"
    /\ resp.status_code = 200
    /\ Len(resp.notifications) = 1
    /\ tickets[notifications[resp.notifications[1]].ticket_id].customer_id
           = resp.customer_id
    /\ customers[resp.customer_id].email = resp.credentials.sub

\* ------------------------------------------------------------------------
\* C34: a mark-read request of a customer for a notification that is not
\* in the store or that belongs to another customer is answered 404 and
\* leaves every notification as it was; a request answered 200 names a
\* notification of the caller and changes nothing but the read flag of
\* that notification, which it sets; no mark-read request changes any
\* other table.
\* ------------------------------------------------------------------------
C34_MarkReadConfinedToOwner ==
    [][(resp'.op = "mark_notification_read")
          => LET caller == get_current_customer(DB, resp'.credentials, now)
                 id == resp'.notification_id
                 owned == /\ id \in DOMAIN notifications
                          /\ notifications[id].customer_id = caller
             IN  /\ (caller # NoRow /\ ~owned)
                       => /\ resp'.status_code = 404
                          /\ notifications' = notifications
                 /\ caller = NoRow => notifications' = notifications
                 /\ resp'.status_code = 200
                       => /\ caller # NoRow
                          /\ owned
                          /\ notifications'
                               = [notifications EXCEPT ![id].is_read = 1]
                 /\ UNCHANGED <<customers, devices, tickets, history,
                                admins, tokens>>]_vars

\* a customer who signed up has asked to mark the notification of another
\* customer's ticket and got 404; the notification is unread
C34_Witness ==
    /\ resp.op = "mark_notification_read"
    /\ resp.status_code = 404
    /\ resp.notification_id \in DOMAIN notifications
    /\ get_current_customer(DB, resp.credentials, now) # NoRow
    /\ notifications[resp.notification_id].customer_id
           # get_current_customer(DB, resp.credentials, now)
    /\ notifications[resp.notification_id].is_read = 0

\* ------------------------------------------------------------------------
\* C35: a customer row without a digest, as a ticket submission creates
\* it, stays without one at every step; a signup with its email is
\* answered 400 and a customer login with its email 401, and neither
\* writes to the store nor sends a token; so the server never issues a
\* customer token whose subject is the email of a customer without a
\* digest.
\* ------------------------------------------------------------------------
NoDigest(email) ==
    \E c \in DOMAIN customers :
        customers[c].email = email /\ customers[c].hashed_password = None

CustomerSignupStep == resp'.op = "customer_signup" /\ now' # now

C35_NoLoginWithoutDigest ==
    [][/\ \A c \in DOMAIN customers :
             customers[c].hashed_password = None
                 => /\ customers'[c].hashed_password = None
                    /\ customers'[c].email = customers[c].email
                    /\ \A token \in tokens' :
                          token.type = "customer"
                              => token.sub # customers[c].email
       /\ (CustomerSignupStep /\ NoDigest(resp'.request.email))
             => /\ resp'.status_code = 400
                /\ NothingWrittenOrIssued
       /\ (CustomerLoginStep /\ NoDigest(resp'.request.email))
             => /\ resp'.status_code = 401
                /\ NothingWrittenOrIssued]_vars

\* a signup with the email of a customer that a submission created was
\* answered 400: the customer has no digest and no token was issued
C35_Witness ==
    /\ resp.op = "customer_signup"
    /\ resp.status_code = 400
    /\ NoDigest(resp.request.email)
    /\ \A token \in tokens :
          token.type = "customer" => token.sub # resp.request.email
    /\ \E t \in DOMAIN tickets :
          customers[tickets[t].customer_id].email = resp.request.email

\* ------------------------------------------------------------------------
\* C36: each history row a bulk update appends has the changed_by of the
\* request, or system when the request has none, and no note; each row a
\* single update appends has changed_by system, as the request has no
\* actor, and the note of the request.
\* ------------------------------------------------------------------------
C36_RowRecordsActorAndNote ==
    [][\A i \in DOMAIN Appended(history, history') :
          LET row == Appended(history, history')[i]
          IN  /\ BulkStep
                    => /\ row.changed_by
                              = IF resp'.request.changed_by = None
                                THEN "system"
                                ELSE resp'.request.changed_by
                       /\ row.notes = None
              /\ UpdateStep
                    => /\ row.changed_by = "system"
                       /\ row.notes = attr(resp'.request.notes)]_vars

\* C36 as the code has it: system also stands for an actor that is the
\* empty string.
C36_RowRecordsActorOrSystem ==
    [][\A i \in DOMAIN Appended(history, history') :
          LET row == Appended(history, history')[i]
          IN  /\ BulkStep
                    => /\ row.changed_by
                              = IF resp'.request.changed_by \in {None, ""}
                                THEN "system"
                                ELSE resp'.request.changed_by
                       /\ row.notes = None
              /\ UpdateStep
                    => /\ row.changed_by = "system"
                       /\ row.notes = attr(resp'.request.notes)]_vars

\* a single update with a note and then a bulk update by alice have each
\* left their row
C36_Witness ==
    /\ resp.op = "bulk_update_tickets"
    /\ resp.request.changed_by = "alice"
    /\ Len(history) = 2
    /\ history[1].changed_by = "system"
    /\ history[1].notes = "screen replaced"
    /\ history[2].changed_by = "alice"
    /\ history[2].notes = None
    /\ history[2].changed_at = now

====
